---- MODULE Spec2Model ----
(***************************************************************************)
(* Model of the xm_save encoder: BinaryWriter (growable little-endian      *)
(* buffer), XMWriter (header, patterns, packed notes, instruments, delta   *)
(* encoded samples) and the construction helpers.                          *)
(*                                                                         *)
(* Bytes are naturals 0..255, a buffer is a sequence of bytes whose length *)
(* is the allocated capacity (offset p of the program is index p+1), a     *)
(* string is the sequence of its UTF-16 code units, an optional field is a *)
(* sequence of length 0 (undefined) or 1.                                  *)
(***************************************************************************)
EXTENDS Integers, Sequences, FiniteSets, TLC

VARIABLES module, writer, allocs, outcome, error, result, log,
          bw, ref, last, steps, asked, plain,
          held, calls,
          built, added, change,
          nameNow, valueNow, given, trip,
          toPack, packed,
          grid, rowNow, positionNow, bodyNow, fieldNow,
          allocated, reached, pending, doubled, stage, turns

vars == <<module, writer, allocs, outcome, error, result, log,
          bw, ref, last, steps, asked, plain,
          held, calls,
          built, added, change,
          nameNow, valueNow, given, trip,
          toPack, packed,
          grid, rowNow, positionNow, bodyNow, fieldNow,
          allocated, reached, pending, doubled, stage, turns>>

----------------------------------------------------------------------------
(* Bounds of the model *)

MaxRows == 2
MaxChannels == 2
MaxPatterns == 2
MaxSampleLen == 2
MaxOps == 3
MaxSize == 2
MaxCalls == 3
MaxAdds == 3
MaxNameLen == 3

----------------------------------------------------------------------------
(* XM_CONSTANTS and the literals of the writer *)

ID_STRING == <<69, 120, 116, 101, 110, 100, 101, 100, 32, 77, 111, 100, 117, 108, 101, 58, 32>>
ID_BYTE == 26
HEADER_SIZE == 276
PATTERN_HEADER_SIZE == 9
INSTRUMENT_HEADER_SIZE == 29
EXTENDED_INSTRUMENT_HEADER_SIZE == 214
SAMPLE_HEADER_SIZE == 40
MAX_MODULE_NAME_LENGTH == 20
MAX_TRACKER_NAME_LENGTH == 20
MAX_INSTRUMENT_NAME_LENGTH == 22
MAX_SAMPLE_NAME_LENGTH == 22
PATTERN_ORDER_TABLE_SIZE == 256
MAX_ENVELOPE_POINTS == 12
SAMPLE_NUMBER_FOR_NOTES_SIZE == 96
DEFAULT_VERSION == 260
DEFAULT_TRACKER_NAME == <<120, 109, 95, 115, 97, 118, 101, 32, 84, 121, 112, 101, 83, 99, 114, 105, 112, 116, 32>>
NOTE_OFF == 97
FLAG_LINEAR_FREQUENCY == 1

MAX_CHANNELS == 32
MAX_INSTRUMENTS == 128
MAX_PATTERNS == 256
MAX_ROWS == 256
DEFAULT_BUFFER_SIZE == 1024

ChannelsError == "Number of channels cannot exceed 32"
InstrumentsError == "Number of instruments cannot exceed 128"
PatternsError == "Number of patterns cannot exceed 256"
NoteConflictError == "Cannot set both volume and volumeEffect on the same note"
RangeError == "RangeError: offset is out of bounds"

----------------------------------------------------------------------------
(* BinaryWriter.  A writer value w carries, beside buffer and offset, the  *)
(* message of the exception thrown so far (err, "" for none) and the       *)
(* positions observed so far (log).  An operator that continues a method   *)
(* takes the writer reached so far as its parameter.                       *)

Zeros(n) == [i \in 1..n |-> 0]

\* The bytes of v, high byte first (littleEndian left false).
RECURSIVE LittleEndian_bigEndian(_, _)
LittleEndian_bigEndian(v, width) ==
  IF width = 0 THEN <<>>
  ELSE LittleEndian_bigEndian(v \div 256, width - 1) \o <<v % 256>>

\* The bytes of v, low byte first, as DataView.setUintN / setIntN store them:
\* the value modulo 2^(8*width), two's complement for negative values.
RECURSIVE LittleEndian(_, _)
LittleEndian(v, width) ==
  IF width = 0 THEN <<>>
  ELSE <<v % 256>> \o LittleEndian(v \div 256, width - 1)

\* TextEncoder.encode of one code unit (a BMP character that is no surrogate).
Utf8(cp) ==
  IF cp < 128 THEN <<cp>>
  ELSE IF cp < 2048 THEN <<192 + (cp \div 64), 128 + (cp % 64)>>
  ELSE <<224 + (cp \div 4096), 128 + ((cp \div 64) % 64), 128 + (cp % 64)>>

RECURSIVE encode(_)
encode(str) ==
  IF str = <<>> THEN <<>> ELSE Utf8(Head(str)) \o encode(Tail(str))

\* str.substring(0, length)
substring(str, length) ==
  IF Len(str) <= length THEN str ELSE SubSeq(str, 1, length)

\* TypedArray.set / DataView.setX at a position that lies inside the buffer.
PutAt(buffer, position, bytes) ==
  SubSeq(buffer, 1, position) \o bytes
    \o SubSeq(buffer, position + Len(bytes) + 1, Len(buffer))

BinaryWriter(size) == [buffer |-> Zeros(size), offset |-> 0, err |-> "", log |-> <<>>]

RECURSIVE DoubleUntil(_, _)
DoubleUntil(newSize, requiredSize) ==
  IF newSize < requiredSize THEN DoubleUntil(newSize * 2, requiredSize) ELSE newSize

\* newUint8.set(this.uint8) into the zero-filled new buffer
Grow(w, newSize) == [w EXCEPT !.buffer = w.buffer \o Zeros(newSize - Len(w.buffer))]

ensureCapacity(w, additionalBytes) ==
  IF w.offset + additionalBytes > Len(w.buffer)
  THEN Grow(w, DoubleUntil(Len(w.buffer) * 2, w.offset + additionalBytes))
  ELSE w

\* this.view.setX(this.offset, value, true); this.offset += width
Store(w, bytes) ==
  [w EXCEPT !.buffer = PutAt(w.buffer, w.offset, bytes),
            !.offset = w.offset + Len(bytes)]

\* A writer on which an exception was thrown runs no further statement.
writeInt(w, value, width) ==
  IF w.err # "" THEN w
  ELSE Store(ensureCapacity(w, width), LittleEndian(value, width))

writeUint8(w, value) == writeInt(w, value, 1)
writeInt8(w, value) == writeInt(w, value, 1)
writeUint16(w, value) == writeInt(w, value, 2)
writeInt16(w, value) == writeInt(w, value, 2)
writeUint32(w, value) == writeInt(w, value, 4)

\* for (let i = bytes.length; i < length; i++) this.uint8[this.offset + i] = 0
Pad(buffer, position, count) ==
  IF count > 0 THEN PutAt(buffer, position, Zeros(count)) ELSE buffer

\* A writeString that moves past everything it stored: the position
\* advances by the encoded length when that exceeds the field.
SetString_skipOverflow(w, bytes, length) ==
  IF w.offset + Len(bytes) > Len(w.buffer)
  THEN [w EXCEPT !.err = RangeError]
  ELSE [w EXCEPT !.buffer = Pad(PutAt(w.buffer, w.offset, bytes),
                                w.offset + Len(bytes), length - Len(bytes)),
                 !.offset = w.offset + (IF Len(bytes) > length THEN Len(bytes)
                                        ELSE length)]

\* this.uint8.set(bytes, this.offset), a RangeError when bytes do not fit
\* in the buffer; then the padding; then this.offset += length.
SetString(w, bytes, length) ==
  IF w.offset + Len(bytes) > Len(w.buffer)
  THEN [w EXCEPT !.err = RangeError]
  ELSE [w EXCEPT !.buffer = Pad(PutAt(w.buffer, w.offset, bytes),
                                w.offset + Len(bytes), length - Len(bytes)),
                 !.offset = w.offset + length]

writeString(w, str, length) ==
  IF w.err # "" THEN w
  ELSE SetString(ensureCapacity(w, length), encode(substring(str, length)), length)

writeBytes(w, bytes) ==
  IF w.err # "" THEN w
  ELSE Store(ensureCapacity(w, Len(bytes)), bytes)

\* this.ensureCapacity(count); this.offset += count (no byte is stored)
writeZeros(w, count) ==
  IF w.err # "" THEN w
  ELSE [ensureCapacity(w, count) EXCEPT !.offset = w.offset + count]

getPosition(w) == w.offset

setPosition(w, position) ==
  IF w.err # "" THEN w ELSE [w EXCEPT !.offset = position]

\* The end index ArrayBuffer.slice computes: a negative end counts from the
\* end of the buffer, and the result is clamped to 0..byteLength.
SliceEnd(byteLength, end) ==
  IF end < 0 THEN (IF byteLength + end < 0 THEN 0 ELSE byteLength + end)
  ELSE IF end > byteLength THEN byteLength ELSE end

\* buffer.slice(0, offset)
getBuffer(w) == SubSeq(w.buffer, 1, SliceEnd(Len(w.buffer), w.offset))

\* new Uint8Array(buffer, 0, offset): a RangeError when the length is
\* negative or the view would end past the buffer.
getUint8Array(w) ==
  IF w.offset < 0 \/ w.offset > Len(w.buffer)
  THEN [err |-> RangeError, bytes |-> <<>>]
  ELSE [err |-> "", bytes |-> SubSeq(w.buffer, 1, w.offset)]

\* A patch made by moving the position: setPosition(position); writeUint16.
writeUint16At_moves(w, position, value) ==
  IF w.err # "" THEN w
  ELSE IF position + 2 > Len(w.buffer) THEN [w EXCEPT !.err = RangeError]
  ELSE [w EXCEPT !.buffer = PutAt(w.buffer, position, LittleEndian(value, 2)),
                 !.offset = position + 2]

\* DataView.setUint16(position, value, true); out of bounds is a RangeError.
writeUint16At(w, position, value) ==
  IF w.err # "" THEN w
  ELSE IF position + 2 > Len(w.buffer) THEN [w EXCEPT !.err = RangeError]
  ELSE [w EXCEPT !.buffer = PutAt(w.buffer, position, LittleEndian(value, 2))]

\* The matching little-endian accessors of a DataView over a byte sequence.
getUint8(bytes, position) == bytes[position + 1]
getUint16(bytes, position) == bytes[position + 1] + 256 * bytes[position + 2]
getUint32(bytes, position) ==
  bytes[position + 1] + 256 * bytes[position + 2]
    + 65536 * bytes[position + 3] + 16777216 * bytes[position + 4]
getInt8(bytes, position) ==
  IF bytes[position + 1] >= 128 THEN bytes[position + 1] - 256 ELSE bytes[position + 1]
getInt16(bytes, position) ==
  IF getUint16(bytes, position) >= 32768
  THEN getUint16(bytes, position) - 65536 ELSE getUint16(bytes, position)

\* Every loop `for (let i = lo; i < hi; i++)` of the program is an operator
\* over the range lo..hi-1 that runs the iterations in index order (the
\* range is split in halves only to keep the evaluation shallow) and runs
\* none once an exception was thrown.
Mid(lo, hi) == (lo + hi) \div 2

\* The span [from, to) that a completed piece of the output occupies, as
\* getPosition gives it before and after the piece; body is where its
\* payload starts.
Logged(w, kind, from, body) ==
  IF w.err # "" THEN w
  ELSE [w EXCEPT !.log = Append(w.log,
          [kind |-> kind, from |-> from, body |-> body, to |-> getPosition(w)])]

----------------------------------------------------------------------------
(* XMWriter.packNote *)

Defined(field) == field # <<>>

\* new Uint8Array([...]): every element is stored modulo 256.
RECURSIVE Uint8Array(_)
Uint8Array(values) ==
  IF values = <<>> THEN <<>>
  ELSE <<Head(values) % 256>> \o Uint8Array(Tail(values))

\* A conflict check on truthiness (note.volume && note.volumeEffect) instead
\* of !== undefined: a level or an effect byte of 0 goes unnoticed.
NoteConflict_truthy(note) ==
  /\ Defined(note.volume) /\ Defined(note.volumeEffect)
  /\ note.volume[1] # 0 /\ note.volumeEffect[1] # 0

NoteConflict(note) == Defined(note.volume) /\ Defined(note.volumeEffect)

\* A volume column of (note.volume ?? 0) + 0x10: an undefined level counts
\* as level 0.
VolumeByte_zeroDefault(note) ==
  IF Defined(note.volumeEffect) THEN note.volumeEffect[1]
  ELSE IF Defined(note.volume) THEN note.volume[1] + 16
  ELSE 16

\* A volume column that stores the level itself, without the 0x10 offset.
VolumeByte_unshifted(note) ==
  IF Defined(note.volumeEffect) THEN note.volumeEffect[1]
  ELSE IF Defined(note.volume) THEN note.volume[1]
  ELSE 0

VolumeByte(note) ==
  IF Defined(note.volumeEffect) THEN note.volumeEffect[1]
  ELSE IF Defined(note.volume) THEN note.volume[1] + 16
  ELSE 0

hasNote(note) == note.note # 0
hasInstrument(note) == note.instrument # 0
hasVolume(note) == VolumeByte(note) # 0
hasEffect(note) == note.effectType # 0 \/ note.effectParam # 0

\* A raw-form test that forgets the effect category.
AllPresent_noEffect(note) ==
  hasNote(note) /\ hasInstrument(note) /\ hasVolume(note)

AllPresent(note) ==
  hasNote(note) /\ hasInstrument(note) /\ hasVolume(note) /\ hasEffect(note)

RawForm(note) ==
  Uint8Array(<<note.note, note.instrument, VolumeByte(note),
               note.effectType, note.effectParam>>)

\* Flags whose effect-parameter bit follows effectParam alone, although the
\* parameter byte is pushed for a nonzero effectType too.
PackedFlags_paramOnly(note) ==
  128 + (IF hasNote(note) THEN 1 ELSE 0)
      + (IF hasInstrument(note) THEN 2 ELSE 0)
      + (IF hasVolume(note) THEN 4 ELSE 0)
      + (IF note.effectType # 0 THEN 8 ELSE 0)
      + (IF note.effectParam # 0 THEN 16 ELSE 0)

\* flags = 0x80, then flags |= bit for every field pushed
PackedFlags(note) ==
  128 + (IF hasNote(note) THEN 1 ELSE 0)
      + (IF hasInstrument(note) THEN 2 ELSE 0)
      + (IF hasVolume(note) THEN 4 ELSE 0)
      + (IF note.effectType # 0 THEN 8 ELSE 0)
      + (IF note.effectParam # 0 \/ note.effectType # 0 THEN 16 ELSE 0)

PackedBytes(note) ==
  (IF hasNote(note) THEN <<note.note>> ELSE <<>>)
    \o (IF hasInstrument(note) THEN <<note.instrument>> ELSE <<>>)
    \o (IF hasVolume(note) THEN <<VolumeByte(note)>> ELSE <<>>)
    \o (IF note.effectType # 0 THEN <<note.effectType>> ELSE <<>>)
    \o (IF note.effectParam # 0 \/ note.effectType # 0
        THEN <<note.effectParam>> ELSE <<>>)

PackedForm(note) == Uint8Array(<<PackedFlags(note)>> \o PackedBytes(note))

\* The packed bytes, or the message of the error thrown.
packNote(note) ==
  IF NoteConflict(note) THEN [err |-> NoteConflictError, bytes |-> <<>>]
  ELSE IF AllPresent(note) THEN [err |-> "", bytes |-> RawForm(note)]
  ELSE [err |-> "", bytes |-> PackedForm(note)]

----------------------------------------------------------------------------
(* XMWriter.writeHeader *)

\* array[i] || 0
OrZero(array, i) == IF i < Len(array) THEN array[i + 1] ELSE 0

RECURSIVE writeEntries(_, _, _, _)
writeEntries(w, array, lo, hi) ==
  IF hi <= lo \/ w.err # "" THEN w
  ELSE IF hi = lo + 1 THEN writeUint8(w, OrZero(array, lo))
  ELSE writeEntries(writeEntries(w, array, lo, Mid(lo, hi)), array, Mid(lo, hi), hi)

writeTable(w, array, size) == writeEntries(w, array, 0, size)

writeHeaderFields(w, header) ==
  LET w1 == writeString(w, ID_STRING, 17)
      w2 == writeString(w1, header.moduleName, MAX_MODULE_NAME_LENGTH)
      w3 == writeUint8(w2, ID_BYTE)
      w4 == writeString(w3, header.trackerName, MAX_TRACKER_NAME_LENGTH)
      w5 == writeUint16(w4, header.version)
      w6 == writeUint32(w5, HEADER_SIZE)
      w7 == writeUint16(w6, header.songLength)
      w8 == writeUint16(w7, header.restartPosition)
      w9 == writeUint16(w8, header.numberOfChannels)
      w10 == writeUint16(w9, header.numberOfPatterns)
      w11 == writeUint16(w10, header.numberOfInstruments)
      w12 == writeUint16(w11, header.flags)
      w13 == writeUint16(w12, header.defaultTempo)
      w14 == writeUint16(w13, header.defaultBPM)
  IN writeTable(w14, header.patternOrderTable, PATTERN_ORDER_TABLE_SIZE)

writeHeader(w, header) ==
  Logged(writeHeaderFields(w, header), "header", getPosition(w), getPosition(w))

----------------------------------------------------------------------------
(* XMWriter.writePattern, writePatterns *)

\* The replacement of a missing cell: pattern.data[row]?.[channel] || {...}
FallbackNote ==
  [note |-> 0, instrument |-> 0, volume |-> <<0>>, volumeEffect |-> <<>>,
   effectType |-> 0, effectParam |-> 0]

HasCell(pattern, row, channel) ==
  row < Len(pattern.data) /\ channel < Len(pattern.data[row + 1])

CellAt(pattern, row, channel) ==
  IF HasCell(pattern, row, channel)
  THEN pattern.data[row + 1][channel + 1]
  ELSE FallbackNote

\* this.writer.writeBytes(packedNote), unless packNote threw
writePacked(w, packedNote) ==
  IF packedNote.err # "" THEN [w EXCEPT !.err = packedNote.err]
  ELSE writeBytes(w, packedNote.bytes)

\* for (let channel = lo; channel < hi; channel++)
RECURSIVE writeChannels(_, _, _, _, _)
writeChannels(w, pattern, row, lo, hi) ==
  IF hi <= lo \/ w.err # "" THEN w
  ELSE IF hi = lo + 1 THEN writePacked(w, packNote(CellAt(pattern, row, lo)))
  ELSE writeChannels(writeChannels(w, pattern, row, lo, Mid(lo, hi)),
                     pattern, row, Mid(lo, hi), hi)

\* for (let row = lo; row < hi; row++)
RECURSIVE writeRows(_, _, _, _, _)
writeRows(w, pattern, numberOfChannels, lo, hi) ==
  IF hi <= lo \/ w.err # "" THEN w
  ELSE IF hi = lo + 1 THEN writeChannels(w, pattern, lo, 0, numberOfChannels)
  ELSE writeRows(writeRows(w, pattern, numberOfChannels, lo, Mid(lo, hi)),
                 pattern, numberOfChannels, Mid(lo, hi), hi)

\* A row loop that runs over the rows the pattern stores.
writeCells_storedRows(w, pattern, numberOfChannels) ==
  writeRows(w, pattern, numberOfChannels, 0, Len(pattern.data))

writeCells(w, pattern, numberOfChannels) ==
  writeRows(w, pattern, numberOfChannels, 0, pattern.header.numberOfRows)

\* A size measured from the placeholder instead of from the first cell.
PackedSize_fromPlaceholder(endPosition, dataStartPosition, packedSizePosition) ==
  endPosition - packedSizePosition

PackedSize(endPosition, dataStartPosition, packedSizePosition) ==
  endPosition - dataStartPosition

\* w5: the writer after the cells
patchPackedSize(w5, packedSizePosition, dataStartPosition) ==
  writeUint16At(w5, packedSizePosition,
                PackedSize(getPosition(w5), dataStartPosition, packedSizePosition))

\* w4: the writer after the placeholder; start: where the pattern began
writePatternData(w4, start, packedSizePosition, pattern, numberOfChannels) ==
  Logged(patchPackedSize(writeCells(w4, pattern, numberOfChannels),
                         packedSizePosition, getPosition(w4)),
         "pattern", start, getPosition(w4))

\* w3: the writer after header length, packing type and number of rows
writePatternSize(w3, start, pattern, numberOfChannels) ==
  writePatternData(writeUint16(w3, 0), start, getPosition(w3), pattern,
                   numberOfChannels)

writePattern(w, pattern, numberOfChannels) ==
  writePatternSize(
    writeUint16(writeUint8(writeUint32(w, PATTERN_HEADER_SIZE), 0),
                pattern.header.numberOfRows),
    getPosition(w), pattern, numberOfChannels)

RECURSIVE writePatterns(_, _, _)
writePatterns(w, patterns, numberOfChannels) ==
  IF patterns = <<>> \/ w.err # "" THEN w
  ELSE writePatterns(writePattern(w, Head(patterns), numberOfChannels),
                     Tail(patterns), numberOfChannels)

----------------------------------------------------------------------------
(* XMWriter.writeInstrument, writeSampleHeader, writeSampleData *)

\* envelope.points[i] || { x: 0, y: 0 }
PointAt(envelope, i) ==
  IF i < Len(envelope.points) THEN envelope.points[i + 1] ELSE [x |-> 0, y |-> 0]

RECURSIVE writePoints(_, _, _, _)
writePoints(w, envelope, lo, hi) ==
  IF hi <= lo \/ w.err # "" THEN w
  ELSE IF hi = lo + 1
  THEN writeUint16(writeUint16(w, PointAt(envelope, lo).x), PointAt(envelope, lo).y)
  ELSE writePoints(writePoints(w, envelope, lo, Mid(lo, hi)), envelope, Mid(lo, hi), hi)

writeEnvelopePoints(w, envelope) == writePoints(w, envelope, 0, MAX_ENVELOPE_POINTS)

\* (sample.header.type & 0x10) !== 0
is16Bit(sample) == (sample.header.type \div 16) % 2 = 1

\* Fields left in frames whatever the width.
InBytes_frames(sample, frames) == frames

\* is16Bit ? frames * 2 : frames
InBytes(sample, frames) == IF is16Bit(sample) THEN frames * 2 ELSE frames

writeSampleHeaderFields(w, sample) ==
  LET w1 == writeUint32(w, InBytes(sample, Len(sample.data.values)))
      w2 == writeUint32(w1, InBytes(sample, sample.header.loopStart))
      w3 == writeUint32(w2, InBytes(sample, sample.header.loopLength))
      w4 == writeUint8(w3, sample.header.volume)
      w5 == writeInt8(w4, sample.header.fineTune)
      w6 == writeUint8(w5, sample.header.type)
      w7 == writeUint8(w6, sample.header.panning)
      w8 == writeInt8(w7, sample.header.relativeNoteNumber)
      w9 == writeUint8(w8, sample.header.reserved)
  IN writeString(w9, sample.header.name, MAX_SAMPLE_NAME_LENGTH)

writeSampleHeader(w, sample) ==
  Logged(writeSampleHeaderFields(w, sample), "sampleHeader",
         getPosition(w), getPosition(w))

\* A payload of the absolute values.
Delta_absolute(value, lastValue) == value

Delta(value, lastValue) == value - lastValue

\* lastValue is 0 before the first iteration and the previous value after it.
LastValue(values, i) == IF i = 0 THEN 0 ELSE values[i]

RECURSIVE writeDeltas(_, _, _, _, _)
writeDeltas(w, values, wide, lo, hi) ==
  IF hi <= lo \/ w.err # "" THEN w
  ELSE IF hi = lo + 1
  THEN IF wide THEN writeInt16(w, Delta(values[lo + 1], LastValue(values, lo)))
       ELSE writeInt8(w, Delta(values[lo + 1], LastValue(values, lo)))
  ELSE writeDeltas(writeDeltas(w, values, wide, lo, Mid(lo, hi)),
                   values, wide, Mid(lo, hi), hi)

writeSampleData(w, sample) ==
  Logged(writeDeltas(w, sample.data.values, is16Bit(sample), 0, Len(sample.data.values)), "sampleData",
         getPosition(w), getPosition(w))

RECURSIVE writeSampleHeaders(_, _)
writeSampleHeaders(w, samples) ==
  IF samples = <<>> \/ w.err # "" THEN w
  ELSE writeSampleHeaders(writeSampleHeader(w, Head(samples)), Tail(samples))

RECURSIVE writeSampleDatas(_, _)
writeSampleDatas(w, samples) ==
  IF samples = <<>> \/ w.err # "" THEN w
  ELSE writeSampleDatas(writeSampleData(w, Head(samples)), Tail(samples))

writeExtendedHeaderFields(w, eh) ==
  LET w1 == writeUint32(w, SAMPLE_HEADER_SIZE)
      w2 == writeTable(w1, eh.sampleNumberForNotes, SAMPLE_NUMBER_FOR_NOTES_SIZE)
      w3 == writeEnvelopePoints(w2, eh.volumeEnvelope)
      w4 == writeEnvelopePoints(w3, eh.panningEnvelope)
      w5 == writeUint8(w4, eh.volumeEnvelope.numberOfPoints)
      w6 == writeUint8(w5, eh.panningEnvelope.numberOfPoints)
      w7 == writeUint8(w6, eh.volumeEnvelope.sustainPoint)
      w8 == writeUint8(w7, eh.volumeEnvelope.loopStartPoint)
      w9 == writeUint8(w8, eh.volumeEnvelope.loopEndPoint)
      w10 == writeUint8(w9, eh.panningEnvelope.sustainPoint)
      w11 == writeUint8(w10, eh.panningEnvelope.loopStartPoint)
      w12 == writeUint8(w11, eh.panningEnvelope.loopEndPoint)
      w13 == writeUint8(w12, eh.volumeEnvelope.type)
      w14 == writeUint8(w13, eh.panningEnvelope.type)
      w15 == writeUint8(w14, eh.vibratoType)
      w16 == writeUint8(w15, eh.vibratoSweep)
      w17 == writeUint8(w16, eh.vibratoDepth)
      w18 == writeUint8(w17, eh.vibratoRate)
      w19 == writeUint16(w18, eh.volumeFadeOut)
  IN writeUint16(w19, 0)

writeExtendedHeader(w, eh) ==
  Logged(writeExtendedHeaderFields(w, eh), "extendedHeader",
         getPosition(w), getPosition(w))

\* A test that takes an attached extended header for samples.
hasSamples_orHeader(instrument) ==
  Len(instrument.samples) > 0 \/ Defined(instrument.extendedHeader)

hasSamples(instrument) == Len(instrument.samples) > 0

InstrumentHeaderSize(instrument) ==
  IF hasSamples(instrument)
  THEN INSTRUMENT_HEADER_SIZE + EXTENDED_INSTRUMENT_HEADER_SIZE
  ELSE INSTRUMENT_HEADER_SIZE

writeInstrumentHeader(w, instrument) ==
  LET w1 == writeUint32(w, InstrumentHeaderSize(instrument))
      w2 == writeString(w1, instrument.header.name, MAX_INSTRUMENT_NAME_LENGTH)
      w3 == writeUint8(w2, 0)
  IN writeUint16(w3, Len(instrument.samples))

\* w4: the writer after the four fields of the instrument header
writeInstrumentSamples(w4, instrument) ==
  IF hasSamples(instrument) /\ Defined(instrument.extendedHeader)
  THEN writeSampleDatas(
         writeSampleHeaders(
           writeExtendedHeader(w4, instrument.extendedHeader[1]),
           instrument.samples),
         instrument.samples)
  ELSE w4

writeInstrument(w, instrument) ==
  Logged(writeInstrumentSamples(writeInstrumentHeader(w, instrument), instrument),
         "instrument", getPosition(w), getPosition(w))

RECURSIVE writeInstruments(_, _)
writeInstruments(w, instruments) ==
  IF instruments = <<>> \/ w.err # "" THEN w
  ELSE writeInstruments(writeInstrument(w, Head(instruments)), Tail(instruments))

----------------------------------------------------------------------------
(* XMWriter.write *)

\* Limit checks with >= in place of >.
validate_inclusive(header) ==
  IF header.numberOfChannels >= MAX_CHANNELS THEN ChannelsError
  ELSE IF header.numberOfInstruments >= MAX_INSTRUMENTS THEN InstrumentsError
  ELSE IF header.numberOfPatterns >= MAX_PATTERNS THEN PatternsError
  ELSE ""

\* The message of the limit check that throws, "" when all three pass.
validate(header) ==
  IF header.numberOfChannels > MAX_CHANNELS THEN ChannelsError
  ELSE IF header.numberOfInstruments > MAX_INSTRUMENTS THEN InstrumentsError
  ELSE IF header.numberOfPatterns > MAX_PATTERNS THEN PatternsError
  ELSE ""

\* A write that emits the instruments before the patterns.
encode_module_instrumentsFirst(m) ==
  writePatterns(
    writeInstruments(writeHeader(BinaryWriter(DEFAULT_BUFFER_SIZE), m.header),
                     m.instruments),
    m.patterns, m.header.numberOfChannels)

\* The statements of write after the limit checks, on the fresh BinaryWriter.
encode_module(m) ==
  writeInstruments(
    writePatterns(writeHeader(BinaryWriter(DEFAULT_BUFFER_SIZE), m.header),
                  m.patterns, m.header.numberOfChannels),
    m.instruments)

\* A write that goes on with the writer the instance already has.
Renewed_kept(old) == [buffer |-> old.buffer, offset |-> old.offset, err |-> "", log |-> <<>>]

\* this.writer = new BinaryWriter(): the writer of the instance is replaced
\* at each call, whatever the previous call left in it.
Renewed(old) == BinaryWriter(DEFAULT_BUFFER_SIZE)

\* writeHeader, writePatterns, writeInstruments on the writer of the instance.
write_on(w, m) ==
  writeInstruments(
    writePatterns(writeHeader(w, m.header), m.patterns, m.header.numberOfChannels),
    m.instruments)

----------------------------------------------------------------------------
(* Construction helpers: createModule, createPattern, createInstrument,    *)
(* createSample, createEmptyEnvelope, addSampleToInstrument                *)

Untitled == <<85, 110, 116, 105, 116, 108, 101, 100>>
InstrumentName == <<73, 110, 115, 116, 114, 117, 109, 101, 110, 116>>
SampleName == <<83, 97, 109, 112, 108, 101>>

\* An option that is absent, 0 or '' takes the default under `||`.
createModule(options) ==
  [header |->
     [moduleName |-> IF options.moduleName = <<>> THEN Untitled ELSE options.moduleName,
      trackerName |-> DEFAULT_TRACKER_NAME,
      version |-> DEFAULT_VERSION,
      songLength |-> 1,
      restartPosition |-> 0,
      numberOfChannels |-> IF options.numberOfChannels = 0 THEN 4
                           ELSE options.numberOfChannels,
      numberOfPatterns |-> 1,
      numberOfInstruments |-> 0,
      flags |-> FLAG_LINEAR_FREQUENCY,
      defaultTempo |-> IF options.defaultTempo = 0 THEN 6 ELSE options.defaultTempo,
      defaultBPM |-> IF options.defaultBPM = 0 THEN 125 ELSE options.defaultBPM,
      patternOrderTable |-> Zeros(PATTERN_ORDER_TABLE_SIZE)],
   patterns |-> <<>>,
   instruments |-> <<>>]

NoOptions ==
  [moduleName |-> <<>>, numberOfChannels |-> 0, defaultTempo |-> 0, defaultBPM |-> 0]

\* The cell createPattern pushes: volume is undefined by default.
EmptyNote ==
  [note |-> 0, instrument |-> 0, volume |-> <<>>, volumeEffect |-> <<>>,
   effectType |-> 0, effectParam |-> 0]

createPattern(numberOfRows, numberOfChannels) ==
  [header |-> [headerLength |-> PATTERN_HEADER_SIZE, packingType |-> 0,
               numberOfRows |-> numberOfRows, packedDataSize |-> 0],
   data |-> [row \in 1..numberOfRows |-> [channel \in 1..numberOfChannels |-> EmptyNote]]]

createInstrument(name) ==
  [header |-> [headerSize |-> INSTRUMENT_HEADER_SIZE, name |-> name, type |-> 0,
               numberOfSamples |-> 0],
   extendedHeader |-> <<>>,
   samples |-> <<>>]

createEmptyEnvelope ==
  [points |-> <<>>, numberOfPoints |-> 0, sustainPoint |-> 0, loopStartPoint |-> 0,
   loopEndPoint |-> 0, type |-> 0]

\* options.data is [kind, values]; volume and panning default under `??`.
createSample(options) ==
  LET wide == options.data.kind = "Int16Array"
      loopType == options.loopType
  IN [header |->
        [length |-> IF wide THEN Len(options.data.values) * 2 ELSE Len(options.data.values),
         loopStart |-> options.loopStart,
         loopLength |-> options.loopLength,
         volume |-> IF Defined(options.volume) THEN options.volume[1] ELSE 64,
         fineTune |-> options.fineTune,
         type |-> (loopType % 4) + (IF wide THEN 16 ELSE 0),
         panning |-> IF Defined(options.panning) THEN options.panning[1] ELSE 128,
         relativeNoteNumber |-> options.relativeNoteNumber,
         reserved |-> 0,
         name |-> IF options.name = <<>> THEN SampleName ELSE options.name],
      data |-> options.data]

\* An add that initialises the extended header every time.
addSampleToInstrument_resets(target, sample) ==
  [header |-> [target.header EXCEPT !.numberOfSamples = Len(target.samples) + 1],
   extendedHeader |->
     <<[sampleHeaderSize |-> SAMPLE_HEADER_SIZE,
        sampleNumberForNotes |-> Zeros(SAMPLE_NUMBER_FOR_NOTES_SIZE),
        volumeEnvelope |-> createEmptyEnvelope,
        panningEnvelope |-> createEmptyEnvelope,
        vibratoType |-> 0, vibratoSweep |-> 0, vibratoDepth |-> 0,
        vibratoRate |-> 0, volumeFadeOut |-> 0]>>,
   samples |-> Append(target.samples, sample)]

addSampleToInstrument(instrument, sample) ==
  LET first == Len(instrument.samples) = 0
      eh == [sampleHeaderSize |-> SAMPLE_HEADER_SIZE,
             sampleNumberForNotes |-> Zeros(SAMPLE_NUMBER_FOR_NOTES_SIZE),
             volumeEnvelope |-> createEmptyEnvelope,
             panningEnvelope |-> createEmptyEnvelope,
             vibratoType |-> 0, vibratoSweep |-> 0, vibratoDepth |-> 0,
             vibratoRate |-> 0, volumeFadeOut |-> 0]
      samples == Append(instrument.samples, sample)
  IN [header |-> [instrument.header EXCEPT !.numberOfSamples = Len(samples)],
      extendedHeader |-> IF first THEN <<eh>> ELSE instrument.extendedHeader,
      samples |-> samples]

\* ['C-', 'C#', 'D-', 'D#', 'E-', 'F-', 'F#', 'G-', 'G#', 'A-', 'A#', 'B-']
noteNames ==
  << <<67, 45>>, <<67, 35>>, <<68, 45>>, <<68, 35>>, <<69, 45>>, <<70, 45>>,
     <<70, 35>>, <<71, 45>>, <<71, 35>>, <<65, 45>>, <<65, 35>>, <<66, 45>> >>

\* String.prototype.toUpperCase on one code unit of the ASCII range
toUpperCase(c) == IF c >= 97 /\ c <= 122 THEN c - 32 ELSE c

\* Array.prototype.indexOf: the first index from 0, or -1
indexOf(array, x) ==
  IF \E i \in 1..Len(array) : array[i] = x
  THEN (CHOOSE i \in 1..Len(array) :
          array[i] = x /\ \A j \in 1..(i - 1) : array[j] # x) - 1
  ELSE -1

\* noteName.match(/^([A-Ga-g][#-]?)(\d)$/)
matches(noteName) ==
  /\ Len(noteName) \in {2, 3}
  /\ noteName[1] \in (65..71) \cup (97..103)
  /\ Len(noteName) = 3 => noteName[2] \in {35, 45}
  /\ noteName[Len(noteName)] \in 48..57

\* match[1].toUpperCase(), then a lone letter or letter and '-' made letter + '-'
normalized(noteName) ==
  IF Len(noteName) = 2 \/ noteName[2] = 45
  THEN <<toUpperCase(noteName[1]), 45>>
  ELSE <<toUpperCase(noteName[1]), noteName[2]>>

\* A conversion whose values start at 0.
noteNameToValue_fromZero(noteName) ==
  IF ~matches(noteName) THEN 0
  ELSE IF indexOf(noteNames, normalized(noteName)) = -1
          \/ noteName[Len(noteName)] - 48 > 7 THEN 0
  ELSE (noteName[Len(noteName)] - 48) * 12 + indexOf(noteNames, normalized(noteName))

noteNameToValue(noteName) ==
  IF ~matches(noteName) THEN 0
  ELSE IF indexOf(noteNames, normalized(noteName)) = -1
          \/ noteName[Len(noteName)] - 48 < 0
          \/ noteName[Len(noteName)] - 48 > 7 THEN 0
  ELSE (noteName[Len(noteName)] - 48) * 12 + indexOf(noteNames, normalized(noteName)) + 1

noteValueToName(noteValue) ==
  IF noteValue = 0 THEN <<45, 45, 45>>
  ELSE IF noteValue = NOTE_OFF THEN <<79, 70, 70>>
  ELSE IF noteValue < 1 \/ noteValue > 96 THEN <<63, 63, 63>>
  ELSE noteNames[((noteValue - 1) % 12) + 1] \o <<48 + ((noteValue - 1) \div 12)>>

----------------------------------------------------------------------------
(* The modules handed to write *)

Str(n, cp) == [i \in 1..n |-> cp]

\* Header counts at and around the three limits, set by the caller on the
\* header as the validation tests do (the arrays themselves stay small).
ChannelCounts == {1, MAX_CHANNELS, MAX_CHANNELS + 1}
InstrumentCounts == {0, MAX_INSTRUMENTS, MAX_INSTRUMENTS + 1}
PatternCounts == {1, MAX_PATTERNS, MAX_PATTERNS + 1}

ConflictPattern ==
  [createPattern(1, 1)
     EXCEPT !.data[1][1] = [EmptyNote EXCEPT !.volume = <<32>>, !.volumeEffect = <<16>>]]

LimitModules ==
  { [createModule([NoOptions EXCEPT !.numberOfChannels = c])
       EXCEPT !.header.numberOfPatterns = p,
              !.header.numberOfInstruments = i,
              !.patterns = ps] :
      c \in ChannelCounts, p \in PatternCounts, i \in InstrumentCounts,
      ps \in {<<>>, <<createPattern(1, 1)>>, <<ConflictPattern>>} }

\* One cell, as the helper getPackedNoteBytes of the volume tests builds it:
\* createPattern(1, 1), Object.assign(pattern.data[0][0], noteConfig).
NoteInputs ==
  [note : {0, 1, NOTE_OFF}, instrument : {0, 1},
   volume : {<<>>, <<0>>, <<1>>, <<64>>}, volumeEffect : {<<>>, <<0>>, <<160>>},
   effectType : {0, 1}, effectParam : {0, 1, 255}]
    \cup { [EmptyNote EXCEPT !.volume = <<v>>] : v \in 0..64 }

SingleNoteModule(note) ==
  [createModule(NoOptions)
     EXCEPT !.patterns = <<[createPattern(1, 1) EXCEPT !.data[1][1] = note]>>,
            !.header.numberOfPatterns = 1,
            !.header.numberOfChannels = 1]

NoteModules == { SingleNoteModule(n) : n \in NoteInputs }

\* Patterns whose grid is createPattern(rd, cd) with at most one cell
\* assigned, under a header of r rows in a module of c channels: the grid
\* may lack rows or channels (sparse) or hold more than the header names.
FullNote ==
  [note |-> 49, instrument |-> 1, volume |-> <<64>>, volumeEffect |-> <<>>,
   effectType |-> 10, effectParam |-> 0]
NoteOnly == [EmptyNote EXCEPT !.note = 49]
ConflictNote == ConflictPattern.data[1][1]
PatternNotes == {FullNote, NoteOnly, ConflictNote}

Cells(data) ==
  UNION { { <<row, channel>> : channel \in 1..Len(data[row]) } : row \in 1..Len(data) }

Assigned(data) ==
  {data} \cup
  { [data EXCEPT ![cell[1]][cell[2]] = n] : cell \in Cells(data), n \in PatternNotes }

GridInputs ==
  UNION { Assigned(createPattern(rd, cd).data) : rd \in 0..MaxRows, cd \in 0..MaxChannels }

PatternInputs ==
  { [createPattern(r, 1) EXCEPT !.data = d] : r \in 1..MaxRows, d \in GridInputs }

PrefixPattern == [createPattern(1, 1) EXCEPT !.data[1][1] = FullNote]

RECURSIVE Repeat(_, _)
Repeat(x, n) == IF n = 0 THEN <<>> ELSE <<x>> \o Repeat(x, n - 1)

PatternLists ==
  {<<>>} \cup
  { Repeat(PrefixPattern, k) \o <<p>> : k \in 0..(MaxPatterns - 1), p \in PatternInputs }

PatternModules ==
  { [createModule([NoOptions EXCEPT !.numberOfChannels = c])
       EXCEPT !.patterns = ps, !.header.numberOfPatterns = Len(ps)] :
      c \in 1..MaxChannels, ps \in PatternLists }

\* Headers whose names are empty, short, exactly as long as their field,
\* longer, and made of characters of 1, 2 and 3 encoded bytes; whose order
\* table is full, missing or short; whose 16-bit fields take the values of
\* WordInputs.
NameInputs == { Str(n, cp) : n \in {0, 3, 20, 21}, cp \in {65, 233, 8364} }
TableInputs == { Zeros(PATTERN_ORDER_TABLE_SIZE), <<>>, <<1, 0, 2>> }
WordInputs == {0, 258, 65535}

NamedModules ==
  { [createModule(NoOptions)
       EXCEPT !.header.moduleName = mn,
              !.header.trackerName = tn,
              !.header.patternOrderTable = t,
              !.patterns = <<createPattern(1, 1)>>] :
      mn \in NameInputs, tn \in NameInputs, t \in TableInputs }

WordModules ==
  { [createModule(NoOptions)
       EXCEPT !.header.version = v, !.header.songLength = v] : v \in WordInputs }
  \cup
  { [createModule(NoOptions)
       EXCEPT !.header.restartPosition = v, !.header.flags = v] : v \in WordInputs }
  \cup
  { [createModule(NoOptions)
       EXCEPT !.header.defaultTempo = v, !.header.defaultBPM = v] : v \in WordInputs }

HeaderModules == NamedModules \cup WordModules

\* Instruments made by createInstrument and addSampleToInstrument from
\* samples made by createSample: 8-bit and 16-bit data of up to
\* MaxSampleLen values at the ends and the middle of the type's range.
RECURSIVE SeqsUpTo(_, _)
SeqsUpTo(S, n) ==
  IF n = 0 THEN {<<>>}
  ELSE LET shorter == SeqsUpTo(S, n - 1) IN
       shorter \cup { Append(q, x) : q \in shorter, x \in S }

Int8Values == {-128, -1, 0, 127}
Int16Values == {-32768, -1, 0, 32767}
Ramp == <<0, 10, 20, 30, 40>>

DataInputs ==
  { [kind |-> "Int8Array", values |-> v] : v \in SeqsUpTo(Int8Values, MaxSampleLen) \cup {Ramp} }
  \cup
  { [kind |-> "Int16Array", values |-> v] : v \in SeqsUpTo(Int16Values, MaxSampleLen) \cup {Ramp} }

SampleOptions(data) ==
  [name |-> <<>>, data |-> data, volume |-> <<>>, fineTune |-> 0, loopStart |-> 0,
   loopLength |-> 0, loopType |-> 0, panning |-> <<>>, relativeNoteNumber |-> 0]

SampleInputs == { createSample(SampleOptions(d)) : d \in DataInputs }

SecondSample ==
  createSample([SampleOptions([kind |-> "Int16Array", values |-> <<-32768, 32767>>])
                  EXCEPT !.loopType = 1, !.loopStart = 1, !.loopLength = 1])

InstrumentInputs ==
  { createInstrument(InstrumentName) }
  \cup { addSampleToInstrument(createInstrument(InstrumentName), s) : s \in SampleInputs }
  \cup { addSampleToInstrument(
           addSampleToInstrument(createInstrument(InstrumentName), s), SecondSample) :
         s \in SampleInputs }

\* Instruments put together by hand, as the interface XMInstrument allows
\* with its optional extendedHeader: samples without an extended header
\* (the header deleted, or the samples pushed directly), and an extended
\* header left on an instrument whose samples were removed.
RampSample ==
  createSample([SampleOptions([kind |-> "Int8Array", values |-> Ramp])
                  EXCEPT !.loopStart = 1, !.loopLength = 3, !.loopType = 2])

TwoSamples ==
  addSampleToInstrument(addSampleToInstrument(createInstrument(InstrumentName),
                                              RampSample), SecondSample)

HandMadeInstruments ==
  { [TwoSamples EXCEPT !.extendedHeader = <<>>],
    [TwoSamples EXCEPT !.samples = <<>>],
    [TwoSamples EXCEPT !.samples = <<SecondSample>>] }

InstrumentLists ==
  { <<i>> : i \in InstrumentInputs \cup HandMadeInstruments }
  \cup { <<i, j>> : i, j \in HandMadeInstruments \cup {TwoSamples, createInstrument(<<>>)} }

InstrumentModules ==
  { [createModule(NoOptions)
       EXCEPT !.patterns = <<createPattern(1, 1)>>,
              !.header.numberOfChannels = 1,
              !.instruments = is,
              !.header.numberOfInstruments = Len(is)] : is \in InstrumentLists }

ModuleInputs ==
  LimitModules \cup NoteModules \cup PatternModules \cup HeaderModules
    \cup InstrumentModules

----------------------------------------------------------------------------
(* The state machine: one XMWriter, one call of write on a module *)

\* The variables of the state machines that follow the three main ones, and
\* the values they keep while another machine runs.
xmVars == <<module, writer, allocs, outcome, error, result, log>>
bwVars == <<bw, ref, last, steps, asked, plain>>
reuseVars == <<held, calls>>
buildVars == <<built, added, change>>

nameVars == <<nameNow, valueNow, given, trip>>

packVars == <<toPack, packed>>

sizeVars == <<grid, rowNow, positionNow, bodyNow, fieldNow>>

growVars == <<allocated, reached, pending, doubled, stage, turns>>
aside == <<buildVars, nameVars, packVars, sizeVars, growVars>>

XmIdle ==
  /\ module = createModule(NoOptions)
  /\ writer = [buffer |-> Zeros(DEFAULT_BUFFER_SIZE), offset |-> 0]
  /\ allocs = 1
  /\ outcome = "idle"
  /\ error = ""
  /\ result = <<>>
  /\ log = <<>>

BwIdle ==
  /\ bw = BinaryWriter(1)
  /\ ref = BinaryWriter(1)
  /\ last = [op |-> "none", position |-> 0, length |-> 0, value |-> 0, text |-> <<>>]
  /\ steps = 0
  /\ asked = 0
  /\ plain = TRUE

ReuseIdle == held = <<>> /\ calls = 0

BuildIdle ==
  /\ built = createInstrument(<<>>)
  /\ added = <<>>
  /\ change = [before |-> <<>>, after |-> <<>>]

NamesIdle ==
  /\ nameNow = <<>>
  /\ valueNow = 0
  /\ given = [name |-> <<>>, value |-> 0]
  /\ trip = <<>>

PackIdle == toPack = EmptyNote /\ packed = <<>>

SizeIdle ==
  /\ grid = [numberOfRows |-> 0, numberOfChannels |-> 0]
  /\ rowNow = 0
  /\ positionNow = 0
  /\ bodyNow = 0
  /\ fieldNow = -1

GrowIdle ==
  /\ allocated = 0
  /\ reached = 0
  /\ pending = 0
  /\ doubled = 0
  /\ stage = "idle"
  /\ turns = 0

AsideIdle == BuildIdle /\ NamesIdle /\ PackIdle /\ SizeIdle /\ GrowIdle

NoOperation == [op |-> "none", position |-> 0, length |-> 0, value |-> 0, text |-> <<>>]

Init ==
  /\ module \in ModuleInputs
  /\ writer = [buffer |-> Zeros(DEFAULT_BUFFER_SIZE), offset |-> 0]
  /\ allocs = 1
  /\ outcome = "idle"
  /\ error = ""
  /\ result = <<>>
  /\ log = <<>>
  /\ bw = BinaryWriter(1)
  /\ ref = BinaryWriter(1)
  /\ last = NoOperation
  /\ steps = 0
  /\ asked = 0
  /\ plain = TRUE
  /\ held = <<>>
  /\ calls = 0
  /\ AsideIdle

\* A traversal that stores the size it computed in the pattern's header too
\* (pattern.header.packedDataSize = packedSize).
Traversed_storesSize(m) ==
  [m EXCEPT !.patterns =
     [k \in 1..Len(m.patterns) |->
        [m.patterns[k] EXCEPT !.header.packedDataSize = 1 + m.patterns[k].header.numberOfRows]]]

\* The module as the traversal leaves it: writeHeader, writePattern,
\* writeInstrument and what they call read their arguments and assign to no
\* field of them; the size computed in writePattern goes to the buffer only.
Traversed(m) == m

\* The end of write on the writer w it filled: return this.writer.getBuffer(),
\* or the exception that left w half written.
Finish(w) ==
  /\ writer' = [buffer |-> w.buffer, offset |-> w.offset]
  /\ allocs' = allocs + 1
  /\ log' = w.log
  /\ outcome' = IF w.err = "" THEN "returned" ELSE "threw"
  /\ error' = w.err
  /\ result' = IF w.err = "" THEN getBuffer(w) ELSE result
  /\ module' = Traversed(module)
  /\ UNCHANGED <<bw, ref, last, steps, asked, plain, held, calls, aside>>

\* XMWriter.write(module): the limit checks, then a new BinaryWriter, the
\* header, the patterns, the instruments, and the trimmed buffer returned.
Write ==
  /\ outcome = "idle"
  /\ IF validate(module.header) # ""
     THEN /\ outcome' = "threw"
          /\ error' = validate(module.header)
          /\ UNCHANGED <<module, writer, allocs, result, log>>
          /\ UNCHANGED <<bw, ref, last, steps, asked, plain, held, calls, aside>>
     ELSE Finish(encode_module(module))

Next == Write

Spec == Init /\ [][Next]_vars

----------------------------------------------------------------------------
(* The state machine of one BinaryWriter: a caller constructs it with a    *)
(* small size and calls its methods one after the other; ref is a second   *)
(* writer, of ample capacity, that receives the same calls.  last is the   *)
(* latest call with the position it found, asked the bytes the calls were  *)
(* asked to write, plain whether all calls so far were writes.             *)

\* A capacity that MaxOps calls never exhaust (a call stores 6 bytes at most).
Ample == 8 * (MaxOps + 1)

Sizes == 1..MaxSize

StringInputs ==
  { <<<<65>>, 2>>, <<<<65, 66>>, 1>>, <<<<233>>, 1>>, <<<<8364, 8364>>, 2>> }

InitWriter ==
  /\ module = createModule(NoOptions)
  /\ writer = [buffer |-> Zeros(DEFAULT_BUFFER_SIZE), offset |-> 0]
  /\ allocs = 1
  /\ outcome = "idle"
  /\ error = ""
  /\ result = <<>>
  /\ log = <<>>
  /\ bw \in { BinaryWriter(size) : size \in Sizes }
  /\ ref = BinaryWriter(Ample)
  /\ last = NoOperation
  /\ steps = 0
  /\ asked = 0
  /\ plain = TRUE
  /\ held = <<>>
  /\ calls = 0
  /\ AsideIdle

\* The caller goes on while no call has thrown.
Ready == steps < MaxOps /\ bw.err = ""

\* One call: the writer and the reference after it, what was called, the
\* number of bytes it was asked to write, and whether it is a write.
Call(after, afterRef, operation, bytes, isWrite) ==
  /\ bw' = after
  /\ ref' = afterRef
  /\ last' = operation
  /\ steps' = steps + 1
  /\ asked' = asked + bytes
  /\ plain' = (plain /\ isWrite)
  /\ UNCHANGED <<module, writer, allocs, outcome, error, result, log, held, calls, aside>>

Called(op, length, value, text) ==
  [op |-> op, position |-> bw.offset, length |-> length, value |-> value, text |-> text]

WriteUint8 ==
  /\ Ready
  /\ \E v \in {0, 255} :
    Call(writeUint8(bw, v), writeUint8(ref, v), Called("writeUint8", 1, v, <<>>), 1, TRUE)

WriteInt8 ==
  /\ Ready
  /\ \E v \in {-128, -1} :
    Call(writeInt8(bw, v), writeInt8(ref, v), Called("writeInt8", 1, v, <<>>), 1, TRUE)

WriteUint16 ==
  /\ Ready
  /\ \E v \in {258, 65535} :
    Call(writeUint16(bw, v), writeUint16(ref, v), Called("writeUint16", 2, v, <<>>), 2, TRUE)

WriteInt16 ==
  /\ Ready
  /\ \E v \in {-32768, -2} :
    Call(writeInt16(bw, v), writeInt16(ref, v), Called("writeInt16", 2, v, <<>>), 2, TRUE)

WriteUint32 ==
  /\ Ready
  /\ \E v \in {16909060, 2147483647} :
    Call(writeUint32(bw, v), writeUint32(ref, v), Called("writeUint32", 4, v, <<>>), 4, TRUE)

WriteString ==
  /\ Ready
  /\ \E input \in StringInputs :
    Call(writeString(bw, input[1], input[2]), writeString(ref, input[1], input[2]),
         Called("writeString", input[2], 0, input[1]), input[2], TRUE)

WriteBytes ==
  /\ Ready
  /\ \E bytes \in { <<7, 8, 9>> } :
    Call(writeBytes(bw, bytes), writeBytes(ref, bytes),
         Called("writeBytes", Len(bytes), 0, bytes), Len(bytes), TRUE)

WriteZeros ==
  /\ Ready
  /\ \E n \in 1..2 :
    Call(writeZeros(bw, n), writeZeros(ref, n), Called("writeZeros", n, 0, <<>>), n, TRUE)

SetPosition ==
  /\ Ready
  /\ \E position \in {0, 1, MaxSize + 1} :
    Call(setPosition(bw, position), setPosition(ref, position),
         Called("setPosition", 0, position, <<>>), 0, FALSE)

WriteUint16At ==
  /\ Ready
  /\ \E patch \in { <<0, 258>>, <<1, 65535>> } :
    Call(writeUint16At(bw, patch[1], patch[2]), writeUint16At(ref, patch[1], patch[2]),
         [op |-> "writeUint16At", position |-> patch[1], length |-> 2,
          value |-> patch[2], text |-> <<>>],
         0, FALSE)

NextWriter ==
  \/ WriteUint8 \/ WriteInt8 \/ WriteUint16 \/ WriteInt16 \/ WriteUint32
  \/ WriteString \/ WriteBytes \/ WriteZeros \/ SetPosition \/ WriteUint16At

WriterSpec == InitWriter /\ [][NextWriter]_vars

----------------------------------------------------------------------------
(* Reading the output.  The bytes returned are read back as a player reads *)
(* them: total accessors (a position past the end reads as -1), the spans  *)
(* the writer reported, and the framing of packed notes by their first     *)
(* byte.                                                                   *)

At(position) == IF position >= 0 /\ position < Len(result) THEN result[position + 1] ELSE -1

Slice(from, to) == [i \in 1..(to - from) |-> At(from + i - 1)]

Nth(bytes, i) == IF i >= 1 /\ i <= Len(bytes) THEN bytes[i] ELSE -1

Word(position) == At(position) + 256 * At(position + 1)

Bit(byte, k) == (byte \div (2 ^ k)) % 2

Spans(kind) == LET Is(e) == e.kind = kind IN SelectSeq(log, Is)

Channels == module.header.numberOfChannels

\* The length of the packed note whose first byte is given: 5 raw bytes, or
\* the flag byte and one byte per flag bit 0..4.
FramedLength(first) ==
  IF first < 0 THEN 1
  ELSE IF first < 128 THEN 5
  ELSE 1 + Bit(first, 0) + Bit(first, 1) + Bit(first, 2) + Bit(first, 3) + Bit(first, 4)

\* Where the cell of the given row-major index begins in a body.
RECURSIVE CellStart(_, _)
CellStart(bodyStart, index) ==
  IF index = 0 THEN bodyStart
  ELSE CellStart(bodyStart + FramedLength(At(bodyStart)), index - 1)

\* The cells of the k-th pattern, by row-major index, the note each one
\* encodes and the bytes it occupies.
CellsOf(k) == 0..(module.patterns[k].header.numberOfRows * Channels - 1)

CellNote(k, index) == CellAt(module.patterns[k], index \div Channels, index % Channels)

Present(k, index) == HasCell(module.patterns[k], index \div Channels, index % Channels)

Cell(k, index) ==
  Slice(CellStart(Spans("pattern")[k].body, index),
        CellStart(Spans("pattern")[k].body, index + 1))

Written == outcome = "returned"

\* The volume column a note asks for.
VolumeColumn(note) ==
  IF note.volumeEffect # <<>> THEN note.volumeEffect[1]
  ELSE IF note.volume # <<>> THEN note.volume[1] + 16
  ELSE 0

FourPresent(note) ==
  /\ note.note # 0
  /\ note.instrument # 0
  /\ VolumeColumn(note) # 0
  /\ (note.effectType # 0 \/ note.effectParam # 0)

----------------------------------------------------------------------------
(* Claims *)

Exceeded(header) ==
  (IF header.numberOfChannels > 32 THEN {ChannelsError} ELSE {})
    \cup (IF header.numberOfInstruments > 128 THEN {InstrumentsError} ELSE {})
    \cup (IF header.numberOfPatterns > 256 THEN {PatternsError} ELSE {})

\* C1: a call of write on a module whose channel, instrument or pattern count
\* exceeds 32, 128 or 256 throws the error of an exceeded limit and changes
\* nothing: the writer, its buffer and position are the ones before the call,
\* no BinaryWriter is allocated, no span is written, nothing is returned.  A
\* call on a module whose counts are at most 32, 128 and 256 (exactly equal
\* included) throws none of the three errors.
C1_ValidationBeforeAnyByte ==
  [][ /\ Exceeded(module.header) # {} =>
           /\ outcome' = "threw"
           /\ error' \in Exceeded(module.header)
           /\ writer' = writer
           /\ allocs' = allocs
           /\ log' = log
           /\ result' = result /\ result' = <<>>
      /\ Exceeded(module.header) = {} =>
           error' \notin {ChannelsError, InstrumentsError, PatternsError} ]_vars

C1_Witness ==
  /\ outcome = "threw"
  /\ error = InstrumentsError
  /\ module.header.numberOfChannels = 32
  /\ module.header.numberOfInstruments = 129
  /\ module.header.numberOfPatterns = 256
  /\ writer.offset = 0 /\ allocs = 1 /\ result = <<>>

\* C2: in every output, the 16-bit little-endian value at offset 7 of each
\* pattern's sub-header is the number of bytes between the end of the 9-byte
\* sub-header and the end of the pattern, and that is the sum of the lengths
\* of its numberOfRows x channelCount packed cells, present or missing.
C2_PackedSizeIsBodyLength ==
  Written =>
    /\ Len(Spans("pattern")) = Len(module.patterns)
    /\ \A k \in 1..Len(module.patterns) :
         /\ Spans("pattern")[k].body = Spans("pattern")[k].from + 9
         /\ Word(Spans("pattern")[k].from + 7)
              = Spans("pattern")[k].to - Spans("pattern")[k].body
         /\ CellStart(Spans("pattern")[k].body,
                      module.patterns[k].header.numberOfRows * Channels)
              = Spans("pattern")[k].to

C2_Witness ==
  /\ Written
  /\ Channels = 2
  /\ \E k \in 1..Len(module.patterns) :
       /\ module.patterns[k].header.numberOfRows = 2
       /\ Present(k, 0) /\ CellNote(k, 0) = FullNote
       /\ ~Present(k, 1)
       /\ Present(k, 2) /\ CellNote(k, 2) = EmptyNote
       /\ Word(Spans("pattern")[k].from + 7) = 10
       /\ Spans("pattern")[k].to - Spans("pattern")[k].body = 10

\* C3: in every output, a cell of the numberOfRows x channelCount grid that
\* the pattern's data has no entry for is the single byte 0x80; a 1-row
\* pattern without data in a 1-channel module has packed size 1.
C3_MissingCellIsOneByte ==
  Written =>
    \A k \in 1..Len(module.patterns) :
      /\ \A index \in CellsOf(k) : ~Present(k, index) => Cell(k, index) = <<128>>
      /\ ( /\ Channels = 1
           /\ module.patterns[k].header.numberOfRows = 1
           /\ module.patterns[k].data = <<>> )
         => /\ Word(Spans("pattern")[k].from + 7) = 1
            /\ At(Spans("pattern")[k].body) = 128

\* The cells of the grid that carry both a volume and a volumeEffect.
Conflicts(pattern) ==
  { index \in 0..(pattern.header.numberOfRows * Channels - 1) :
      /\ HasCell(pattern, index \div Channels, index % Channels)
      /\ pattern.data[(index \div Channels) + 1][(index % Channels) + 1].volume # <<>>
      /\ pattern.data[(index \div Channels) + 1][(index % Channels) + 1].volumeEffect # <<>> }

Conflicting == { k \in 1..Len(module.patterns) : Conflicts(module.patterns[k]) # {} }

\* C4: a call of write on a module with a cell, inside the grid of one of its
\* patterns, that has both volume and volumeEffect never returns bytes; when
\* the module passes the limit checks the call throws the note-conflict
\* error, after the header and every pattern before the first conflicting
\* one were written in full and the position moved into that pattern's body.
C4_NoteConflictThrows ==
  (outcome # "idle" /\ Conflicting # {}) =>
    /\ outcome = "threw"
    /\ result = <<>>
    /\ Exceeded(module.header) = {} =>
         /\ error = NoteConflictError
         /\ \A k \in Conflicting : Len(Spans("pattern")) < k
         /\ \A k \in 1..Len(module.patterns) :
              (\A j \in Conflicting : k < j) => k <= Len(Spans("pattern"))
         /\ writer.offset >= 336 + 9

C4_Witness ==
  /\ outcome = "threw"
  /\ error = NoteConflictError
  /\ Conflicting = {2}
  /\ Len(Spans("pattern")) = 1
  /\ Conflicts(module.patterns[2]) = {3}
  /\ Channels = 2
  /\ writer.offset = 336 + 9 + 7 + 9 + 3

\* The bytes the flags of a packed note announce, in their order.
Flagged(note) ==
  (IF note.note # 0 THEN <<note.note>> ELSE <<>>)
    \o (IF note.instrument # 0 THEN <<note.instrument>> ELSE <<>>)
    \o (IF VolumeColumn(note) # 0 THEN <<VolumeColumn(note)>> ELSE <<>>)
    \o (IF note.effectType # 0 THEN <<note.effectType>> ELSE <<>>)
    \o (IF note.effectParam # 0 \/ note.effectType # 0 THEN <<note.effectParam>> ELSE <<>>)

FlagsMatch(flags, note) ==
  /\ Bit(flags, 7) = 1
  /\ (Bit(flags, 0) = 1) <=> (note.note # 0)
  /\ (Bit(flags, 1) = 1) <=> (note.instrument # 0)
  /\ (Bit(flags, 2) = 1) <=> (VolumeColumn(note) # 0)
  /\ (Bit(flags, 3) = 1) <=> (note.effectType # 0)
  /\ (Bit(flags, 4) = 1) <=> (note.effectParam # 0 \/ note.effectType # 0)
  /\ Bit(flags, 5) = 0
  /\ Bit(flags, 6) = 0

\* C5: in every output, the bytes of a cell whose note is not in the
\* all-four-present case are one flag byte with bit 7 set, bits 0..4 set
\* exactly for note, instrument, volume byte, effectType and (effectParam or
\* effectType) nonzero, bits 5 and 6 clear, and then exactly the announced
\* bytes in the order note, instrument, volume, effectType, effectParam.
C5_PackedFlagsAndBytes ==
  Written =>
    \A k \in 1..Len(module.patterns) : \A index \in CellsOf(k) :
      ~FourPresent(CellNote(k, index)) =>
        /\ FlagsMatch(Nth(Cell(k, index), 1), CellNote(k, index))
        /\ Cell(k, index) = <<Nth(Cell(k, index), 1)>> \o Flagged(CellNote(k, index))
        /\ packNote(CellNote(k, index)).bytes = Cell(k, index)

C5_Witness ==
  /\ Written
  /\ Len(module.patterns) = 1
  /\ CellsOf(1) = {0}
  /\ CellNote(1, 0) = [EmptyNote EXCEPT !.effectType = 1]
  /\ Cell(1, 0) = <<152, 1, 0>>

\* C6: in every output, the bytes of a cell whose note has note, instrument,
\* volume byte and effect (type or parameter) all nonzero are the 5 bytes
\* note, instrument, volume byte, effectType, effectParam, the first of them
\* no flag byte; the bytes of every other cell begin with a flag byte.
C6_RawFormIffAllPresent ==
  Written =>
    \A k \in 1..Len(module.patterns) : \A index \in CellsOf(k) :
      IF FourPresent(CellNote(k, index))
      THEN /\ Cell(k, index) =
                <<CellNote(k, index).note, CellNote(k, index).instrument,
                  VolumeColumn(CellNote(k, index)), CellNote(k, index).effectType,
                  CellNote(k, index).effectParam>>
           /\ Bit(Nth(Cell(k, index), 1), 7) = 0
           /\ packNote(CellNote(k, index)).bytes = Cell(k, index)
      ELSE /\ Bit(Nth(Cell(k, index), 1), 7) = 1
           /\ Len(Cell(k, index)) = 1 + Len(Flagged(CellNote(k, index)))
           /\ packNote(CellNote(k, index)).bytes = Cell(k, index)

C6_Witness ==
  /\ Written
  /\ \E k \in 1..Len(module.patterns) : \E index \in CellsOf(k) :
       /\ CellNote(k, index) = FullNote
       /\ Cell(k, index) = <<49, 1, 80, 10, 0>>
  /\ \E k \in 1..Len(module.patterns) : \E index \in CellsOf(k) :
       /\ CellNote(k, index) = NoteOnly
       /\ Cell(k, index) = <<129, 49>>

\* The note without note, instrument, volume, volumeEffect and effect.
Blank ==
  [note |-> 0, instrument |-> 0, volume |-> <<>>, volumeEffect |-> <<>>,
   effectType |-> 0, effectParam |-> 0]

\* C7: in every output, a cell whose note has note 0, instrument 0, neither
\* volume nor volumeEffect, effectType 0 and effectParam 0 is the single
\* byte 0x80, and the body of a pattern that is createPattern(r, c)
\* unmodified, in a module of c channels, is r*c bytes 0x80 with r*c in the
\* size field.
C7_EmptyNoteIsOneByte ==
  Written =>
    \A k \in 1..Len(module.patterns) :
      /\ \A index \in CellsOf(k) :
           CellNote(k, index) = Blank => Cell(k, index) = <<128>>
      /\ module.patterns[k]
           = createPattern(module.patterns[k].header.numberOfRows, Channels)
         => /\ Slice(Spans("pattern")[k].body, Spans("pattern")[k].to)
                 = [i \in 1..(module.patterns[k].header.numberOfRows * Channels) |-> 128]
            /\ Word(Spans("pattern")[k].from + 7)
                 = module.patterns[k].header.numberOfRows * Channels

C7_Witness ==
  /\ Written
  /\ Channels = 2
  /\ Len(module.patterns) = 1
  /\ module.patterns[1] = createPattern(2, 2)
  /\ Slice(Spans("pattern")[1].body, Len(result)) = <<128, 128, 128, 128>>

\* The volume column found in the bytes of a packed note: the third raw
\* byte, or the byte announced by flag bit 2, or 0 when the bit is clear.
VolumeIn(bytes) ==
  IF Nth(bytes, 1) < 128 THEN Nth(bytes, 3)
  ELSE IF Bit(Nth(bytes, 1), 2) = 1
  THEN Nth(bytes, 2 + Bit(Nth(bytes, 1), 0) + Bit(Nth(bytes, 1), 1))
  ELSE 0

\* C8: in every output, the volume column of a cell is its volumeEffect when
\* that is defined, else its volume level v plus 0x10 (a byte of 0x10..0x50
\* for v in 0..64), else 0; in the packed form bit 2 of the flag byte is set
\* exactly when that byte is not 0; a note with only the level 0 is the two
\* bytes 0x84, 0x10.
C8_VolumeColumn ==
  Written =>
    \A k \in 1..Len(module.patterns) : \A index \in CellsOf(k) :
      /\ VolumeIn(Cell(k, index)) =
           (IF CellNote(k, index).volumeEffect # <<>>
            THEN CellNote(k, index).volumeEffect[1]
            ELSE IF CellNote(k, index).volume # <<>>
            THEN CellNote(k, index).volume[1] + 16
            ELSE 0)
      /\ (CellNote(k, index).volumeEffect = <<>> /\ CellNote(k, index).volume # <<>>)
           => VolumeIn(Cell(k, index)) \in 16..80
      /\ Nth(Cell(k, index), 1) >= 128 =>
           ((Bit(Nth(Cell(k, index), 1), 2) = 1) <=> (VolumeIn(Cell(k, index)) # 0))
      /\ CellNote(k, index) = [Blank EXCEPT !.volume = <<0>>]
           => Cell(k, index) = <<132, 16>>

C8_Witness ==
  /\ Written
  /\ Len(module.patterns) = 1
  /\ CellsOf(1) = {0}
  /\ Present(1, 0)
  /\ CellNote(1, 0) = [Blank EXCEPT !.volume = <<0>>]
  /\ Cell(1, 0) = <<132, 16>>

\* A name as its field of the given length holds it: the first bytes of the
\* encoded name, then zeros.
Field(name, length) == SubSeq(encode(substring(name, length)) \o Zeros(length), 1, length)

Entry(table, i) == IF i < Len(table) THEN table[i + 1] ELSE 0

\* C9: every output begins with 336 bytes of header: the signature at 0..16,
\* the module name in 20 bytes at 17, 0x1A at 37, the tracker name in 20
\* bytes at 38, version at 58, 276 as 32 bits at 60, then song length,
\* restart position, channel, pattern and instrument counts, flags, tempo
\* and BPM as 16 bits each at 64..78, the 256 order entries at 80..335 with
\* 0 for an undefined entry; the first pattern begins at 336.
C9_HeaderLayout ==
  Written =>
    /\ Len(result) >= 336
    /\ Spans("header") = <<[kind |-> "header", from |-> 0, body |-> 0, to |-> 336]>>
    /\ Slice(0, 17) = ID_STRING
    /\ Slice(17, 37) = Field(module.header.moduleName, 20)
    /\ At(37) = 26
    /\ Slice(38, 58) = Field(module.header.trackerName, 20)
    /\ Word(58) = module.header.version
    /\ Word(60) + 65536 * Word(62) = 276
    /\ Word(64) = module.header.songLength
    /\ Word(66) = module.header.restartPosition
    /\ Word(68) = module.header.numberOfChannels
    /\ Word(70) = module.header.numberOfPatterns
    /\ Word(72) = module.header.numberOfInstruments
    /\ Word(74) = module.header.flags
    /\ Word(76) = module.header.defaultTempo
    /\ Word(78) = module.header.defaultBPM
    /\ \A i \in 0..255 : At(80 + i) = Entry(module.header.patternOrderTable, i)
    /\ module.patterns # <<>> =>
         /\ Spans("pattern")[1].from = 336
         /\ Word(336) = 9 /\ Word(338) = 0 /\ At(340) = 0

C9_Witness ==
  /\ Written
  /\ module.header.moduleName = Str(21, 8364)
  /\ module.header.trackerName = Str(20, 233)
  /\ module.header.patternOrderTable = <<1, 0, 2>>
  /\ At(17) = 226 /\ At(36) = 130 /\ At(37) = 26 /\ At(38) = 195 /\ At(57) = 169
  /\ At(80) = 1 /\ At(82) = 2 /\ At(335) = 0
  /\ Spans("pattern")[1].from = 336

\* Every sample of the module in the order of writing, with the span of its
\* payload.
RECURSIVE SamplesOf(_)
SamplesOf(instruments) ==
  IF instruments = <<>> THEN <<>>
  ELSE (IF Len(Head(instruments).samples) > 0 /\ Head(instruments).extendedHeader # <<>>
        THEN Head(instruments).samples ELSE <<>>)
       \o SamplesOf(Tail(instruments))

Width(sample) == IF (sample.header.type \div 16) % 2 = 1 THEN 2 ELSE 1

Matched(sample) == (Width(sample) = 2) <=> (sample.data.kind = "Int16Array")

\* x in the signed range of the given width in bytes, modulo 2^(8*width).
Wrap(x, width) ==
  ((x + 2 ^ (8 * width - 1)) % (2 ^ (8 * width))) - 2 ^ (8 * width - 1)

\* The i-th stored element (i from 1) of the payload that starts at from.
Stored(from, width, i) ==
  Wrap(IF width = 2 THEN Word(from + 2 * (i - 1)) ELSE At(from + i - 1), width)

\* The running sum of the first i stored elements, seeded at 0.
RECURSIVE RunningSum(_, _, _)
RunningSum(from, width, i) ==
  IF i = 0 THEN 0
  ELSE Wrap(RunningSum(from, width, i - 1) + Stored(from, width, i), width)

Previous(values, i) == IF i = 1 THEN 0 ELSE values[i - 1]

\* C10: in every output, the payload of each sample whose 16-bit marker
\* agrees with the kind of its data (as createSample makes it) holds one
\* element per value in the sample's width; element i is value i minus value
\* i-1 (0 before the first) wrapped into the signed range of that width;
\* the running sum of the elements, wrapped the same way, is the input; the
\* 8-bit input 0,10,20,30,40 is stored as 0,10,10,10,10.
C10_DeltaPayload ==
  Written =>
    /\ Len(Spans("sampleData")) = Len(SamplesOf(module.instruments))
    /\ \A j \in 1..Len(SamplesOf(module.instruments)) :
         Matched(SamplesOf(module.instruments)[j]) =>
           /\ Spans("sampleData")[j].to - Spans("sampleData")[j].from
                = Width(SamplesOf(module.instruments)[j])
                    * Len(SamplesOf(module.instruments)[j].data.values)
           /\ \A i \in 1..Len(SamplesOf(module.instruments)[j].data.values) :
                /\ Stored(Spans("sampleData")[j].from,
                          Width(SamplesOf(module.instruments)[j]), i)
                     = Wrap(SamplesOf(module.instruments)[j].data.values[i]
                              - Previous(SamplesOf(module.instruments)[j].data.values, i),
                            Width(SamplesOf(module.instruments)[j]))
                /\ RunningSum(Spans("sampleData")[j].from,
                              Width(SamplesOf(module.instruments)[j]), i)
                     = SamplesOf(module.instruments)[j].data.values[i]
           /\ ( /\ SamplesOf(module.instruments)[j].data.values = <<0, 10, 20, 30, 40>>
                /\ Width(SamplesOf(module.instruments)[j]) = 1 )
              => Slice(Spans("sampleData")[j].from, Spans("sampleData")[j].to)
                   = <<0, 10, 10, 10, 10>>

C10_Witness ==
  /\ Written
  /\ Len(SamplesOf(module.instruments)) = 1
  /\ SamplesOf(module.instruments)[1].data
       = [kind |-> "Int8Array", values |-> <<-128, 127>>]
  /\ Slice(Spans("sampleData")[1].from, Spans("sampleData")[1].to) = <<128, 255>>
  /\ Stored(Spans("sampleData")[1].from, 1, 2) = -1
  /\ RunningSum(Spans("sampleData")[1].from, 1, 2) = 127

DWord(position) == Word(position) + 65536 * Word(position + 2)

\* The span of the j-th instrument record and the spans of one kind inside
\* it, after its 29-byte base header.
Record(j) == Spans("instrument")[j]

Within(kind, j) ==
  LET Inside(e) == e.kind = kind /\ e.from >= Record(j).from + 29 /\ e.to <= Record(j).to
  IN SelectSeq(log, Inside)

RECURSIVE PayloadBytes(_)
PayloadBytes(samples) ==
  IF samples = <<>> THEN 0
  ELSE Width(Head(samples)) * Len(Head(samples).data.values) + PayloadBytes(Tail(samples))

Recorded == Written /\ Len(Spans("instrument")) = Len(module.instruments)

\* C11: in every output, the record of an instrument holds an extended
\* header exactly when the instrument has at least one sample, and for such
\* an instrument the header-size field is 243, the 214-byte extended header
\* follows the 29-byte base header, one 40-byte header per sample follows
\* from offset 243 of the record, the sample-count field is the number of
\* those headers, and the record ends after the payloads of all samples.
C11_ExtendedHeaderIffSamples ==
  Recorded =>
    \A j \in 1..Len(module.instruments) :
      /\ (Len(module.instruments[j].samples) >= 1) <=> (Len(Within("extendedHeader", j)) = 1)
      /\ Len(module.instruments[j].samples) >= 1 =>
           /\ DWord(Record(j).from) = 243
           /\ \A i \in 1..Len(Within("extendedHeader", j)) :
                /\ Within("extendedHeader", j)[i].from = Record(j).from + 29
                /\ Within("extendedHeader", j)[i].to = Record(j).from + 243
           /\ Word(Record(j).from + 27) = Len(Within("sampleHeader", j))
           /\ Len(Within("sampleHeader", j)) = Len(module.instruments[j].samples)
           /\ \A i \in 1..Len(Within("sampleHeader", j)) :
                /\ Within("sampleHeader", j)[i].from = Record(j).from + 243 + 40 * (i - 1)
                /\ Within("sampleHeader", j)[i].to = Record(j).from + 243 + 40 * i
           /\ Record(j).to - Record(j).from
                = 243 + 40 * Len(module.instruments[j].samples)
                    + PayloadBytes(module.instruments[j].samples)

\* C12: in every output, the record of an instrument without samples is its
\* 29-byte base header and nothing more, whether or not an extended header
\* is attached to the instrument: size field 29, the name in 22 bytes, type
\* 0, sample count 0, no extended header, sample header or payload.
C12_NoSamplesBaseHeaderOnly ==
  Recorded =>
    \A j \in 1..Len(module.instruments) :
      Len(module.instruments[j].samples) = 0 =>
        /\ Record(j).to - Record(j).from = 29
        /\ DWord(Record(j).from) = 29
        /\ Slice(Record(j).from + 4, Record(j).from + 26)
             = Field(module.instruments[j].header.name, 22)
        /\ At(Record(j).from + 26) = 0
        /\ Word(Record(j).from + 27) = 0
        /\ Within("extendedHeader", j) = <<>>
        /\ Within("sampleHeader", j) = <<>>
        /\ Within("sampleData", j) = <<>>
        /\ j < Len(module.instruments) => Record(j + 1).from = Record(j).from + 29
        /\ j = Len(module.instruments) => Len(result) = Record(j).from + 29

C12_Witness ==
  /\ Recorded
  /\ Len(module.instruments) = 2
  /\ module.instruments[1].samples = <<>>
  /\ module.instruments[1].extendedHeader # <<>>
  /\ module.instruments[2].samples # <<>>
  /\ DWord(Record(1).from) = 29
  /\ Record(2).from = Record(1).from + 29
  /\ DWord(Record(2).from) = 243

\* C13: in every output, each sample header is 40 bytes, and its first
\* three 32-bit fields are the number of data elements, the header's
\* loopStart and its loopLength, each doubled when bit 4 of the sample's
\* type is set and unchanged when it is clear; the first field is the
\* number of bytes of the sample's payload.
C13_SampleHeaderFields ==
  Written =>
    /\ Len(Spans("sampleHeader")) = Len(SamplesOf(module.instruments))
    /\ Len(Spans("sampleData")) = Len(SamplesOf(module.instruments))
    /\ \A i \in 1..Len(SamplesOf(module.instruments)) :
         /\ Spans("sampleHeader")[i].to - Spans("sampleHeader")[i].from = 40
         /\ DWord(Spans("sampleHeader")[i].from)
              = (IF Bit(SamplesOf(module.instruments)[i].header.type, 4) = 1 THEN 2 ELSE 1)
                  * Len(SamplesOf(module.instruments)[i].data.values)
         /\ DWord(Spans("sampleHeader")[i].from + 4)
              = (IF Bit(SamplesOf(module.instruments)[i].header.type, 4) = 1 THEN 2 ELSE 1)
                  * SamplesOf(module.instruments)[i].header.loopStart
         /\ DWord(Spans("sampleHeader")[i].from + 8)
              = (IF Bit(SamplesOf(module.instruments)[i].header.type, 4) = 1 THEN 2 ELSE 1)
                  * SamplesOf(module.instruments)[i].header.loopLength
         /\ At(Spans("sampleHeader")[i].from + 14) = SamplesOf(module.instruments)[i].header.type
         /\ DWord(Spans("sampleHeader")[i].from)
              = Spans("sampleData")[i].to - Spans("sampleData")[i].from

C13_Witness ==
  /\ Written
  /\ SamplesOf(module.instruments) = <<RampSample, SecondSample>>
  /\ DWord(Spans("sampleHeader")[1].from) = 5
  /\ DWord(Spans("sampleHeader")[1].from + 4) = 1
  /\ DWord(Spans("sampleHeader")[1].from + 8) = 3
  /\ DWord(Spans("sampleHeader")[2].from) = 4
  /\ DWord(Spans("sampleHeader")[2].from + 4) = 2
  /\ DWord(Spans("sampleHeader")[2].from + 8) = 2
  /\ Spans("sampleData")[2].to - Spans("sampleData")[2].from = 4

\* The records of the output in the order they were completed, and the
\* pieces of the j-th instrument record likewise.
Sections ==
  LET IsRecord(e) == e.kind \in {"header", "pattern", "instrument"}
  IN SelectSeq(log, IsRecord)

Pieces(j) ==
  LET Inside(e) == /\ e.kind \in {"extendedHeader", "sampleHeader", "sampleData"}
                   /\ e.from >= Record(j).from + 29 /\ e.to <= Record(j).to
  IN SelectSeq(log, Inside)

\* The packed cells of a pattern in row-major, channel-minor order.
RECURSIVE PackedCells(_, _, _)
PackedCells(k, index, count) ==
  IF index >= count THEN <<>>
  ELSE packNote(CellNote(k, index)).bytes \o PackedCells(k, index + 1, count)

\* C14: every output is, from its first byte to its last and in the order
\* of emission, the header block, one record per pattern in input order
\* (its cells in row-major, channel-minor order), one record per instrument
\* in input order; an instrument record with samples is its base header,
\* the extended header, the headers of all samples and then their payloads
\* in the order of the headers; every piece begins where the piece
\* completed before it ends.
C14_SectionOrder ==
  Written =>
    /\ Len(Sections) = 1 + Len(module.patterns) + Len(module.instruments)
    /\ Sections[1].kind = "header" /\ Sections[1].from = 0
    /\ Sections[Len(Sections)].to = Len(result)
    /\ \A i \in 1..(Len(Sections) - 1) : Sections[i + 1].from = Sections[i].to
    /\ \A i \in 1..(Len(log) - 1) : log[i].to <= log[i + 1].to
    /\ \A k \in 1..Len(module.patterns) :
         /\ Sections[1 + k].kind = "pattern"
         /\ Word(Sections[1 + k].from + 5) = module.patterns[k].header.numberOfRows
         /\ Slice(Sections[1 + k].body, Sections[1 + k].to)
              = PackedCells(k, 0, module.patterns[k].header.numberOfRows * Channels)
    /\ \A j \in 1..Len(module.instruments) :
         /\ Sections[1 + Len(module.patterns) + j].kind = "instrument"
         /\ Word(Sections[1 + Len(module.patterns) + j].from + 27)
              = Len(module.instruments[j].samples)
         /\ Pieces(j) # <<>> =>
              /\ Len(Pieces(j)) = 1 + 2 * Len(module.instruments[j].samples)
              /\ Pieces(j)[1].kind = "extendedHeader"
              /\ Pieces(j)[1].from = Record(j).from + 29
              /\ Pieces(j)[Len(Pieces(j))].to = Record(j).to
              /\ \A i \in 1..(Len(Pieces(j)) - 1) : Pieces(j)[i + 1].from = Pieces(j)[i].to
              /\ \A i \in 1..Len(module.instruments[j].samples) :
                   /\ Pieces(j)[1 + i].kind = "sampleHeader"
                   /\ Pieces(j)[1 + Len(module.instruments[j].samples) + i].kind = "sampleData"
                   /\ Pieces(j)[1 + Len(module.instruments[j].samples) + i].to
                        - Pieces(j)[1 + Len(module.instruments[j].samples) + i].from
                        = Width(module.instruments[j].samples[i])
                            * Len(module.instruments[j].samples[i].data.values)
                   /\ DWord(Pieces(j)[1 + i].from)
                        = Width(module.instruments[j].samples[i])
                            * Len(module.instruments[j].samples[i].data.values)

C14_Witness ==
  /\ Written
  /\ Len(module.patterns) = 1
  /\ module.instruments = <<TwoSamples, TwoSamples>>
  /\ Sections[2].from = 336 /\ Sections[2].to = 346
  /\ Sections[3].from = 346 /\ Sections[3].to = 346 + 243 + 80 + 9
  /\ Sections[4].to = Len(result)
  /\ Pieces(1)[4].kind = "sampleData" /\ Pieces(1)[4].to - Pieces(1)[4].from = 5
  /\ Pieces(1)[5].kind = "sampleData" /\ Pieces(1)[5].to - Pieces(1)[5].from = 4

C25_CountsMatchRecords ==
  Written =>
    /\ Word(70) = Len(Spans("pattern"))
    /\ Word(72) = Len(Spans("instrument"))
    /\ Len(Spans("pattern")) <= MAX_PATTERNS
    /\ Len(Spans("instrument")) <= MAX_INSTRUMENTS

\* The pattern without the cells stored outside its grid: the rows from
\* numberOfRows on and, in each row kept, the channels from numberOfChannels on.
InGrid(pattern, numberOfChannels) ==
  [pattern EXCEPT !.data =
     [r \in 1..(IF Len(pattern.data) < pattern.header.numberOfRows
                THEN Len(pattern.data) ELSE pattern.header.numberOfRows) |->
        SubSeq(pattern.data[r], 1,
               IF Len(pattern.data[r]) < numberOfChannels
               THEN Len(pattern.data[r]) ELSE numberOfChannels)]]

GridOnly(m) ==
  [m EXCEPT !.patterns =
     [k \in 1..Len(m.patterns) |-> InGrid(m.patterns[k], m.header.numberOfChannels)]]

\* What a call of write on the writer w it filled leaves to its caller.
Outcome(w) ==
  [error |-> w.err, log |-> w.log, result |-> IF w.err = "" THEN getBuffer(w) ELSE <<>>]

\* The cells a pattern stores at a row or a channel outside its grid.
Outside(pattern) ==
  { rc \in Cells(pattern.data) :
      rc[1] > pattern.header.numberOfRows \/ rc[2] > Channels }

\* C27: a call of write that passes the limit checks ends as the call on the
\* module without the cells stored outside the grids of its patterns ends:
\* the same bytes returned, the same spans written, the same error thrown.
\* The note-conflict error is thrown only for a cell inside a grid, and in
\* every output each pattern body holds exactly numberOfRows x channelCount
\* encoded cells.
C27_OnlyTheGridIsRead ==
  (outcome # "idle" /\ validate(module.header) = "") =>
    /\ [error |-> error, log |-> log, result |-> result]
         = Outcome(encode_module(GridOnly(module)))
    /\ error = NoteConflictError => Conflicting # {}
    /\ Written =>
         \A k \in 1..Len(module.patterns) :
           CellStart(Spans("pattern")[k].body,
                     module.patterns[k].header.numberOfRows * Channels)
             = Spans("pattern")[k].to

C27_Witness ==
  /\ Written
  /\ Channels = 1
  /\ \E k \in 1..Len(module.patterns) :
       /\ module.patterns[k].header.numberOfRows = 1
       /\ Len(module.patterns[k].data) = 2
       /\ Len(module.patterns[k].data[1]) = 2
       /\ module.patterns[k].data[2][1] = ConflictNote
       /\ <<2, 1>> \in Outside(module.patterns[k])
       /\ Spans("pattern")[k].to - Spans("pattern")[k].body = 1

----------------------------------------------------------------------------
(* The state machine of one XMWriter that is called several times: each    *)
(* call of write takes a module of the caller's; held is what the caller   *)
(* keeps, the module and the ArrayBuffer of every call that returned (the  *)
(* slice of getBuffer is a buffer of its own).                             *)

ReuseModules ==
  { [createModule(NoOptions) EXCEPT !.patterns = <<createPattern(1, 1)>>,
                                    !.header.numberOfChannels = 1],
    [createModule(NoOptions) EXCEPT !.patterns = <<PrefixPattern, createPattern(2, 1)>>,
                                    !.header.numberOfChannels = 2,
                                    !.header.numberOfPatterns = 2],
    [createModule(NoOptions) EXCEPT !.patterns = <<createPattern(1, 1)>>,
                                    !.header.numberOfChannels = 1,
                                    !.instruments = <<TwoSamples>>,
                                    !.header.numberOfInstruments = 1],
    [createModule(NoOptions) EXCEPT !.header.numberOfChannels = MAX_CHANNELS + 1],
    [createModule(NoOptions) EXCEPT !.header.numberOfPatterns = MAX_PATTERNS + 1],
    [createModule(NoOptions) EXCEPT !.patterns = <<PrefixPattern, ConflictPattern>>,
                                    !.header.numberOfChannels = 1,
                                    !.header.numberOfPatterns = 2] }

InitReuse ==
  /\ module = createModule(NoOptions)
  /\ writer = [buffer |-> Zeros(DEFAULT_BUFFER_SIZE), offset |-> 0]
  /\ allocs = 1
  /\ outcome = "idle"
  /\ error = ""
  /\ result = <<>>
  /\ log = <<>>
  /\ bw = BinaryWriter(1)
  /\ ref = BinaryWriter(1)
  /\ last = NoOperation
  /\ steps = 0
  /\ asked = 0
  /\ plain = TRUE
  /\ held = <<>>
  /\ calls = 0
  /\ AsideIdle

\* The end of a call on the writer w it filled.
Return(m, w) ==
  /\ writer' = [buffer |-> w.buffer, offset |-> w.offset]
  /\ log' = w.log
  /\ outcome' = IF w.err = "" THEN "returned" ELSE "threw"
  /\ error' = w.err
  /\ result' = IF w.err = "" THEN getBuffer(w) ELSE result
  /\ held' = IF w.err = "" THEN Append(held, [module |-> m, bytes |-> getBuffer(w)])
             ELSE held

\* One more call of write on the same instance.
WriteNext ==
  /\ calls < MaxCalls
  /\ \E m \in ReuseModules :
       /\ module' = m
       /\ calls' = calls + 1
       /\ UNCHANGED <<bw, ref, last, steps, asked, plain, aside>>
       /\ IF validate(m.header) # ""
          THEN /\ outcome' = "threw"
               /\ error' = validate(m.header)
               /\ UNCHANGED <<writer, allocs, result, log, held>>
          ELSE /\ allocs' = allocs + 1
               /\ Return(m, write_on(Renewed(writer), m))

NextReuse == WriteNext

ReuseSpec == InitReuse /\ [][NextReuse]_vars

\* C21: successive calls of write on one instance share no state: calls
\* that returned for equal modules returned equal bytes (after a call that
\* returned, after one that threw at a limit or at a note conflict, or
\* first), and no later call alters an ArrayBuffer returned before.
C21_CallsShareNoState ==
  [][/\ \A i \in 1..Len(held) : held'[i] = held[i]
     /\ \A i, j \in 1..Len(held') :
          held'[i].module = held'[j].module => held'[i].bytes = held'[j].bytes]_vars

\* Two calls returned for the same module with an instrument, and a third
\* call, made before the second of them, threw.
C21_Witness ==
  /\ calls = 3
  /\ Len(held) = 2
  /\ held[1].module = held[2].module
  /\ Len(held[1].module.instruments) = 1
  /\ outcome = "returned"

----------------------------------------------------------------------------
(* The state machine of a caller that builds an instrument: createInstrument, *)
(* then addSampleToInstrument sample after sample; between two adds the    *)
(* caller may set a field of the extended header it was given.  added is   *)
(* the samples handed over so far, change the extended header as the       *)
(* latest add found it and as it left it.                                  *)

BuildSamples ==
  { RampSample, SecondSample,
    createSample(SampleOptions([kind |-> "Int16Array", values |-> <<>>])) }

InitBuild ==
  /\ XmIdle /\ BwIdle /\ ReuseIdle /\ NamesIdle /\ PackIdle /\ SizeIdle /\ GrowIdle
  /\ built \in { createInstrument(name) : name \in {InstrumentName, <<>>} }
  /\ added = <<>>
  /\ change = [before |-> <<>>, after |-> <<>>]

AddSample ==
  /\ Len(added) < MaxAdds
  /\ \E sample \in BuildSamples :
       /\ built' = addSampleToInstrument(built, sample)
       /\ added' = Append(added, sample)
       /\ change' = [before |-> built.extendedHeader,
                     after |-> addSampleToInstrument(built, sample).extendedHeader]
  /\ UNCHANGED <<xmVars, bwVars, reuseVars, nameVars, packVars, sizeVars, growVars>>

\* instrument.extendedHeader.volumeFadeOut = 512, by the caller
SetFadeOut ==
  /\ Defined(built.extendedHeader)
  /\ built.extendedHeader[1].volumeFadeOut = 0
  /\ built' = [built EXCEPT !.extendedHeader[1].volumeFadeOut = 512]
  /\ UNCHANGED <<added, change, xmVars, bwVars, reuseVars, nameVars, packVars, sizeVars, growVars>>

NextBuild == AddSample \/ SetFadeOut

BuildSpec == InitBuild /\ [][NextBuild]_vars

\* The extended header of a first add.
InitialExtendedHeader ==
  [sampleHeaderSize |-> 40,
   sampleNumberForNotes |-> [i \in 1..96 |-> 0],
   volumeEnvelope |-> createEmptyEnvelope,
   panningEnvelope |-> createEmptyEnvelope,
   vibratoType |-> 0, vibratoSweep |-> 0, vibratoDepth |-> 0,
   vibratoRate |-> 0, volumeFadeOut |-> 0]

Returned(w) == w.err = ""

\* The number of spans of a kind that writing the instrument leaves.
Emitted(w, kind) == Cardinality({ i \in 1..Len(w.log) : w.log[i].kind = kind })

BuiltIsConsistent ==
  /\ built.header.numberOfSamples = Len(built.samples)
  /\ built.samples = added
  /\ Defined(built.extendedHeader) <=> Len(built.samples) >= 1
  /\ Returned(writeInstrument(BinaryWriter(DEFAULT_BUFFER_SIZE), built))
  /\ Emitted(writeInstrument(BinaryWriter(DEFAULT_BUFFER_SIZE), built), "extendedHeader")
       = (IF Len(added) >= 1 THEN 1 ELSE 0)
  /\ Emitted(writeInstrument(BinaryWriter(DEFAULT_BUFFER_SIZE), built), "sampleHeader")
       = Len(added)
  /\ Emitted(writeInstrument(BinaryWriter(DEFAULT_BUFFER_SIZE), built), "sampleData")
       = Len(added)

\* C22: after any sequence of adds on an instrument of createInstrument,
\* numberOfSamples is samples.length, the samples are the added ones in
\* order, extendedHeader is defined exactly when there is a sample, the
\* first add initialises it and a later add leaves it as it found it (with
\* what the caller set in it); writing the instrument emits the extended
\* header and one header and one payload per sample.
C22_AddSampleKeepsInstrument ==
  /\ BuiltIsConsistent
  /\ Len(added) = 1 => change.after = <<InitialExtendedHeader>>
  /\ Len(added) >= 2 => change.after = change.before

\* A third sample was added to an instrument whose fade-out the caller set.
C22_Witness ==
  /\ Len(added) = 3
  /\ Defined(built.extendedHeader)
  /\ built.extendedHeader[1].volumeFadeOut = 512
  /\ built.samples[3] = RampSample

----------------------------------------------------------------------------
(* The state machine of a caller of the two note conversions: it starts    *)
(* from a string or from a number (given, trip says which) and applies     *)
(* noteNameToValue to the string it has, noteValueToName to the number it  *)
(* has, each to the result of the other.                                   *)

\* A B C E G H X c g # - 0 4 7 8
NameChars == {65, 66, 67, 69, 71, 72, 88, 99, 103, 35, 45, 48, 52, 55, 56}

RECURSIVE Strings(_)
Strings(n) ==
  IF n = 0 THEN {<<>>}
  ELSE Strings(n - 1) \cup { Append(str, c) : str \in Strings(n - 1), c \in NameChars }

\* 'invalid', 'C-4 ', 'C--4'
LongNames == { <<105, 110, 118, 97, 108, 105, 100>>, <<67, 45, 52, 32>>, <<67, 45, 45, 52>> }

NoteNameInputs == Strings(MaxNameLen) \cup LongNames

ValueInputs == (-1..98) \cup {100, 255}

InitNames ==
  /\ XmIdle /\ BwIdle /\ ReuseIdle /\ BuildIdle /\ PackIdle /\ SizeIdle /\ GrowIdle
  /\ \/ /\ nameNow \in NoteNameInputs
        /\ valueNow = 0
        /\ trip = <<"name">>
     \/ /\ nameNow = <<>>
        /\ valueNow \in ValueInputs
        /\ trip = <<"value">>
  /\ given = [name |-> nameNow, value |-> valueNow]

NoteNameToValue ==
  /\ Len(trip) < 4
  /\ trip[Len(trip)] \in {"name", "noteValueToName"}
  /\ valueNow' = noteNameToValue(nameNow)
  /\ trip' = Append(trip, "noteNameToValue")
  /\ UNCHANGED <<nameNow, given, xmVars, bwVars, reuseVars, buildVars, packVars, sizeVars, growVars>>

NoteValueToName ==
  /\ Len(trip) < 4
  /\ trip[Len(trip)] \in {"value", "noteNameToValue"}
  /\ nameNow' = noteValueToName(valueNow)
  /\ trip' = Append(trip, "noteValueToName")
  /\ UNCHANGED <<valueNow, given, xmVars, bwVars, reuseVars, buildVars, packVars, sizeVars, growVars>>

NextNames == NoteNameToValue \/ NoteValueToName

NamesSpec == InitNames /\ [][NextNames]_vars

\* A note letter out of the given ones, an optional '#' or '-', and one
\* octave digit 0..7.
NoteForm(name, letters) ==
  /\ Len(name) \in {2, 3}
  /\ name[1] \in letters
  /\ Len(name) = 3 => name[2] \in {35, 45}
  /\ name[Len(name)] \in 48..55

UpperLetters == 65..71
LowerLetters == 97..103

\* What the conversions are to give, with the letters that count as note
\* letters: the special names, the two ends of the range, the round trip
\* from every value 1..96, and 0 for every string that is no note name.
Conversions(letters) ==
  /\ trip = <<"value", "noteValueToName">> =>
       /\ given.value = 0 => nameNow = <<45, 45, 45>>
       /\ given.value = 97 => nameNow = <<79, 70, 70>>
       /\ given.value \notin 0..97 => nameNow = <<63, 63, 63>>
       /\ given.value = 1 => nameNow = <<67, 45, 48>>
       /\ given.value = 96 => nameNow = <<66, 45, 55>>
       /\ given.value \in 1..96 => NoteForm(nameNow, UpperLetters)
  /\ trip = <<"value", "noteValueToName", "noteNameToValue">> =>
       (given.value \in 1..96 => valueNow = given.value)
  /\ trip = <<"name", "noteNameToValue">> =>
       /\ given.name = <<67, 45, 48>> => valueNow = 1
       /\ given.name = <<66, 45, 55>> => valueNow = 96
       /\ ~NoteForm(given.name, letters) => valueNow = 0

\* C23: noteNameToValue(noteValueToName(v)) = v for every v in 1..96, with
\* 'C-0' = 1 and 'B-7' = 96; noteValueToName gives '---' for 0, 'OFF' for 97
\* and '???' for the other values outside 1..96; noteNameToValue gives 0 for
\* every string that is not a note letter A-G, an optional '#' or '-', and
\* one octave digit 0..7.
C23_NoteNamesAsStated == Conversions(UpperLetters)

\* C23, amended: as stated, the note letter being A-G in either case (a
\* lower-case letter a-g is read as its capital).
C23_NoteNames == Conversions(UpperLetters \cup LowerLetters)

\* 58 was converted to 'A-4' and back to 58.
C23_Witness ==
  /\ trip = <<"value", "noteValueToName", "noteNameToValue">>
  /\ given.value = 58
  /\ nameNow = <<65, 45, 52>>
  /\ valueNow = 58

----------------------------------------------------------------------------
(* The state machine of packNote alone: a note of the caller's, with every *)
(* field at the ends and in the middle of the byte range, is packed once.  *)

PackInputs ==
  [note : {0, 1, 96, NOTE_OFF}, instrument : {0, 1, 255},
   volume : {<<>>, <<0>>, <<64>>, <<239>>, <<240>>, <<255>>},
   volumeEffect : {<<>>, <<0>>, <<16>>, <<255>>},
   effectType : {0, 1, 255}, effectParam : {0, 1, 255}]

InitPack ==
  /\ XmIdle /\ BwIdle /\ ReuseIdle /\ BuildIdle /\ NamesIdle /\ SizeIdle /\ GrowIdle
  /\ toPack \in PackInputs
  /\ packed = <<>>

PackNote ==
  /\ packed = <<>>
  /\ packed' = <<packNote(toPack)>>
  /\ UNCHANGED <<toPack, xmVars, bwVars, reuseVars, buildVars, nameVars, sizeVars, growVars>>

NextPack == PackNote

PackSpec == InitPack /\ [][NextPack]_vars

\* The number of bits 0..k-1 set in a flag byte.
RECURSIVE BitsBelow(_, _)
BitsBelow(flags, k) ==
  IF k = 0 THEN 0 ELSE Bit(flags, k - 1) + BitsBelow(flags, k - 1)

\* The decoder of a cell: five raw bytes when bit 7 of the first is clear,
\* otherwise the bytes the flags announce, in order, an absent field read 0.
Decoded(bytes, k) ==
  IF bytes[1] < 128 THEN Nth(bytes, k + 1)
  ELSE IF Bit(bytes[1], k) = 1 THEN Nth(bytes, 2 + BitsBelow(bytes[1], k))
  ELSE 0

Decode(bytes) == [k \in 1..5 |-> Decoded(bytes, k - 1)]

\* The volume byte packNote resolves: the effect byte, or the level + 0x10.
Resolved(note) ==
  IF note.volumeEffect # <<>> THEN note.volumeEffect[1]
  ELSE IF note.volume # <<>> THEN note.volume[1] + 16
  ELSE 0

FourCategories(note) ==
  /\ note.note # 0 /\ note.instrument # 0 /\ Resolved(note) # 0
  /\ (note.effectType # 0 \/ note.effectParam # 0)

Decodable(note, bytes) ==
  /\ Len(bytes) \in 1..5
  /\ bytes[1] < 128 <=> FourCategories(note)
  /\ bytes[1] < 128 => Len(bytes) = 5
  /\ bytes[1] >= 128 =>
       /\ Len(bytes) = 1 + BitsBelow(bytes[1], 5)
       /\ bytes[1] < 160
       /\ ~(BitsBelow(bytes[1], 3) = 3 /\ (Bit(bytes[1], 3) = 1 \/ Bit(bytes[1], 4) = 1))
  /\ Decode(bytes) =
       <<note.note, note.instrument, Resolved(note), note.effectType, note.effectParam>>

Packed == packed # <<>> /\ packed[1].err = ""

\* C24: for every note with note in 0..97 and byte-sized fields, packNote
\* returns 1 to 5 bytes, the first with bit 7 clear exactly when the raw
\* 5-byte form was used, a flag byte never with bits 0, 1, 2 and bit 3 or 4,
\* and the decoder recovers note, instrument, resolved volume byte, effect
\* type and effect parameter.
C24_DecodableAsStated == Packed => Decodable(toPack, packed[1].bytes)

\* C24, amended: as stated, for notes whose volume level is at most 239, so
\* that the resolved volume byte (level + 0x10) is a byte.
C24_Decodable ==
  (Packed /\ (toPack.volume # <<>> => toPack.volume[1] <= 239)) =>
    Decodable(toPack, packed[1].bytes)

\* A note with level 239 and an effect type without parameter was packed.
C24_Witness ==
  /\ Packed
  /\ toPack.volume = <<239>> /\ toPack.note = 0 /\ toPack.instrument = 255
  /\ toPack.effectType = 1 /\ toPack.effectParam = 0
  /\ packed[1].bytes = <<128 + 2 + 4 + 8 + 16, 255, 255, 1, 0>>

----------------------------------------------------------------------------
(* The state machine of writePattern on a pattern of full size, followed   *)
(* by the position of the writer alone (the bytes do not enter the size):  *)
(* the 9-byte sub-header, then row after row, every channel of a row       *)
(* holding the same note, then the patch of the size field.  bodyNow is    *)
(* the sum of the framed lengths of the cells written.                     *)

RowNotes == {EmptyNote, FullNote}

GridSizes ==
  { [numberOfRows |-> r, numberOfChannels |-> c] :
      r \in {1, MAX_ROWS}, c \in {1, MAX_CHANNELS} }

InitSize ==
  /\ XmIdle /\ BwIdle /\ ReuseIdle /\ BuildIdle /\ NamesIdle /\ PackIdle /\ GrowIdle
  /\ grid \in GridSizes
  /\ rowNow = 0
  /\ positionNow = PATTERN_HEADER_SIZE
  /\ bodyNow = 0
  /\ fieldNow = -1

\* One turn of the loop over the rows: numberOfChannels times writeBytes(packNote(note))
WriteRow ==
  /\ rowNow < grid.numberOfRows
  /\ \E note \in RowNotes :
       /\ positionNow' = positionNow + grid.numberOfChannels * Len(packNote(note).bytes)
       /\ bodyNow' = bodyNow + grid.numberOfChannels * FramedLength(packNote(note).bytes[1])
  /\ rowNow' = rowNow + 1
  /\ UNCHANGED <<grid, fieldNow, xmVars, bwVars, reuseVars, buildVars, nameVars, packVars,
                 growVars>>

\* writeUint16At(packedSizePosition, packedSize), read back as the field holds it
PatchSize ==
  /\ rowNow = grid.numberOfRows
  /\ fieldNow = -1
  /\ fieldNow' = getUint16(LittleEndian(PackedSize(positionNow, PATTERN_HEADER_SIZE,
                                                PATTERN_HEADER_SIZE - 2), 2), 0)
  /\ UNCHANGED <<grid, rowNow, positionNow, bodyNow, xmVars, bwVars, reuseVars, buildVars,
                 nameVars, packVars, growVars>>

NextSize == WriteRow \/ PatchSize

SizeSpec == InitSize /\ [][NextSize]_vars

\* C26: for a pattern of at most 256 rows in a module of at most 32
\* channels, the body is at most 5 * 256 * 32 = 40960 bytes and the 16-bit
\* field patched at sub-header offset 7 holds its true length.
C26_SizeNeverWraps ==
  (grid.numberOfRows <= 256 /\ grid.numberOfChannels <= 32) =>
    /\ bodyNow <= 40960
    /\ fieldNow # -1 => fieldNow = bodyNow

\* 256 rows of 32 five-byte cells were written and the field holds 40960.
C26_Witness ==
  /\ grid.numberOfRows = 256 /\ grid.numberOfChannels = 32
  /\ bodyNow = 5 * 256 * 32
  /\ fieldNow = 40960

----------------------------------------------------------------------------
(* The state machine of the writes of one BinaryWriter, statement by       *)
(* statement: a write of pending bytes calls ensureCapacity, whose loop    *)
(* doubles the local newSize (doubled) until it covers the required size,  *)
(* allocates, and the write moves the position (reached).  allocated is    *)
(* buffer.byteLength; turns counts the turns of the loop modulo 2.         *)

\* The longest write of a caller, and the position past which it stops.
MaxLength == 4
MaxPosition == 12

\* new BinaryWriter(size), size from 0 on
InitGrow ==
  /\ XmIdle /\ BwIdle /\ ReuseIdle /\ BuildIdle /\ NamesIdle /\ PackIdle /\ SizeIdle
  /\ allocated \in 0..MaxSize
  /\ reached = 0
  /\ pending = 0
  /\ doubled = 0
  /\ stage = "idle"
  /\ turns = 0

\* A write enters ensureCapacity(additionalBytes): requiredSize is computed
\* and compared with the capacity; newSize starts at twice the capacity.
EnsureCapacity ==
  /\ stage = "idle"
  /\ \E additionalBytes \in 1..MaxLength :
       /\ reached + additionalBytes <= MaxPosition
       /\ pending' = additionalBytes
       /\ IF reached + additionalBytes > allocated
          THEN /\ stage' = "loop"
               /\ doubled' = allocated * 2
          ELSE /\ stage' = "store"
               /\ doubled' = doubled
  /\ turns' = 0
  /\ UNCHANGED <<allocated, reached, xmVars, bwVars, reuseVars, buildVars, nameVars,
                 packVars, sizeVars>>

\* while (newSize < requiredSize) newSize *= 2: one turn
Double ==
  /\ stage = "loop"
  /\ doubled < reached + pending
  /\ doubled' = doubled * 2
  /\ turns' = (turns + 1) % 2
  /\ UNCHANGED <<allocated, reached, pending, stage, xmVars, bwVars, reuseVars, buildVars,
                 nameVars, packVars, sizeVars>>

\* The loop is left: the new buffer of newSize bytes replaces the old one.
Allocate ==
  /\ stage = "loop"
  /\ ~(doubled < reached + pending)
  /\ allocated' = doubled
  /\ stage' = "store"
  /\ UNCHANGED <<reached, pending, doubled, turns, xmVars, bwVars, reuseVars, buildVars,
                 nameVars, packVars, sizeVars>>

\* The write stores its bytes and moves the position: this.offset += length
Advance ==
  /\ stage = "store"
  /\ reached' = reached + pending
  /\ pending' = 0
  /\ stage' = "idle"
  /\ UNCHANGED <<allocated, doubled, turns, xmVars, bwVars, reuseVars, buildVars, nameVars,
                 packVars, sizeVars>>

NextGrow == EnsureCapacity \/ Double \/ Allocate \/ Advance

\* A call that has begun goes on running; the caller may stop calling.
GrowSpec ==
  /\ InitGrow /\ [][NextGrow]_vars
  /\ WF_vars(Double) /\ WF_vars(Allocate) /\ WF_vars(Advance)

\* C30: every write on a BinaryWriter constructed with a size of 0 or more
\* terminates: a call that entered ensureCapacity comes to store its bytes,
\* in a buffer whose capacity is at least position + length.
C30_WritesTerminate ==
  (stage # "idle") ~> (stage = "store" /\ allocated >= reached + pending)

----------------------------------------------------------------------------
(* Claims about one BinaryWriter, read from the state of WriterSpec.        *)


\* The byte the writer holds at a position of its buffer, -1 outside it.
Byte(w, position) ==
  IF position >= 0 /\ position < Len(w.buffer) THEN w.buffer[position + 1] ELSE -1

Held(w, from, length) == [i \in 1..length |-> Byte(w, from + i - 1)]

\* C15: whatever writes a caller makes on a writer constructed with a small
\* positive size, no call throws, the output is as long as the number of
\* bytes the calls wrote, and it is the output of a writer of ample capacity
\* that received the same calls.
C15_GrowthIsTransparent ==
  (plain /\ Returned(ref)) =>
    /\ Returned(bw)
    /\ Len(getBuffer(bw)) = asked
    /\ getBuffer(bw) = getBuffer(ref)

\* The field writeString(text, length) is to leave: the encoded characters
\* of the text cut to length, then zeros, length bytes in all.
StringField(text, length) ==
  SubSeq(encode(substring(text, length)) \o Zeros(length), 1, length)

\* C16: writeString(s, L) returns without throwing, advances the position
\* by exactly L, and leaves the L bytes of the field: the encoded characters
\* of s first, zeros after them, a longer s cut to the field.
C16_StringFieldIsExact ==
  last.op = "writeString" =>
    /\ Returned(bw)
    /\ bw.offset = last.position + last.length
    /\ Held(bw, last.position, last.length) = StringField(last.text, last.length)

IntegerWrites == {"writeUint8", "writeInt8", "writeUint16", "writeInt16", "writeUint32"}

\* The accessor of DataView that matches a write, little-endian.
Accessor(op, bytes, position) ==
  CASE op = "writeUint8" -> getUint8(bytes, position)
    [] op = "writeInt8" -> getInt8(bytes, position)
    [] op = "writeUint16" -> getUint16(bytes, position)
    [] op = "writeInt16" -> getInt16(bytes, position)
    [] op = "writeUint32" -> getUint32(bytes, position)

\* Byte i of a value in two's complement, byte 0 the least significant.
ByteOf(value, i) == (value \div (256 ^ i)) % 256

\* What the accessor reads where a fresh writer stored the value.
ReadBack(op, after) == Accessor(op, after.buffer, 0)

DWords == { b * (256 ^ k) : b \in {0, 1, 127}, k \in 0..3 } \cup { 255 * (256 ^ k) : k \in 0..2 }

\* C17: an integer write returns, stores the value at the position it found,
\* least significant byte first and negative values in two's complement,
\* and advances the position by the width; the matching accessor reads the
\* value back, for every value of the 8-bit and 16-bit ranges.
C17_IntegerWrites ==
  /\ last.op \in IntegerWrites =>
       /\ Returned(bw)
       /\ bw.offset = last.position + last.length
       /\ \A i \in 0..(last.length - 1) :
            Byte(bw, last.position + i) = ByteOf(last.value, i)
       /\ Accessor(last.op, bw.buffer, last.position) = last.value
  /\ steps = 0 =>
       /\ \A v \in 0..255 : ReadBack("writeUint8", writeUint8(bw, v)) = v
       /\ \A v \in -128..127 : ReadBack("writeInt8", writeInt8(bw, v)) = v
       /\ \A v \in 0..65535 : ReadBack("writeUint16", writeUint16(bw, v)) = v
       /\ \A v \in -32768..32767 : ReadBack("writeInt16", writeInt16(bw, v)) = v
       /\ \A v \in DWords : ReadBack("writeUint32", writeUint32(bw, v)) = v

\* -128 was stored as 0x80 behind earlier bytes, in a buffer that has grown.
C17_Witness ==
  /\ last.op = "writeInt8" /\ last.value = -128
  /\ last.position > MaxSize
  /\ Returned(bw)
  /\ Byte(bw, last.position) = 128

\* C18: writeUint16At(p, v) on two bytes that were already written (p + 2 is
\* at most the position, which lies inside the buffer) returns, stores v in bytes p and p + 1, low byte
\* first, and leaves the position, the capacity and every other byte.
C18_PatchInPlace ==
  [][(/\ last'.op = "writeUint16At"
      /\ last'.position + 2 <= bw.offset
      /\ bw.offset <= Len(bw.buffer)) =>
       /\ Returned(bw')
       /\ bw'.offset = bw.offset
       /\ Len(bw'.buffer) = Len(bw.buffer)
       /\ Byte(bw', last'.position) = last'.value % 256
       /\ Byte(bw', last'.position + 1) = last'.value \div 256
       /\ \A position \in 0..(Len(bw.buffer) - 1) :
            position \notin {last'.position, last'.position + 1} =>
              Byte(bw', position) = Byte(bw, position)]_vars

\* 0xFFFF was patched over bytes 1 and 2 of three written bytes.
C18_Witness ==
  /\ last.op = "writeUint16At" /\ last.position = 1
  /\ bw.offset = 3
  /\ Returned(bw)
  /\ Held(bw, 0, 3) = <<7, 255, 255>>

\* C19: after writeZeros(n) at position p, whatever calls came before, the
\* call has returned, the position is p + n, and each of the n bytes at
\* p .. p+n-1 of the output is 0.
C19_ZerosAreZero ==
  last.op = "writeZeros" =>
    /\ Returned(bw)
    /\ bw.offset = last.position + last.length
    /\ \A i \in 1..last.length : Nth(getBuffer(bw), last.position + i) = 0

\* C28: after any calls on a BinaryWriter the position is at least 0 and at
\* most the capacity, getBuffer returns as many bytes as the position says,
\* and getUint8Array returns, with as many bytes.
C28_PositionWithinCapacity ==
  /\ 0 <= bw.offset
  /\ bw.offset <= Len(bw.buffer)
  /\ Len(getBuffer(bw)) = bw.offset
  /\ getUint8Array(bw).err = ""
  /\ Len(getUint8Array(bw).bytes) = bw.offset

\* C29: writeString(s, L) at position p returns, whatever the string, and
\* leaves every byte outside p .. p+L-1 as it was: the bytes the buffer held
\* keep their values, and the bytes a growth added outside the field are 0.
C29_StringKeepsToItsField ==
  [][last'.op = "writeString" =>
       /\ Returned(bw')
       /\ \A position \in 0..(Len(bw'.buffer) - 1) :
            (position < last'.position \/ position >= last'.position + last'.length) =>
              Byte(bw', position)
                = (IF position < Len(bw.buffer) THEN Byte(bw, position) ELSE 0)]_vars

====
